---- MODULE Spec2Model ----
(***************************************************************************)
(* A model of the static-site build of asyida-activity                     *)
(* (scripts/build.ts): trip discovery, the AI-file sort, the title         *)
(* formatter, the page renderer and the copy of trip content into the      *)
(* destination tree.                                                       *)
(*                                                                         *)
(* Strings are sequences of one-character strings, so that the string      *)
(* operations of the source (toLowerCase, endsWith, trim, split, replace,  *)
(* localeCompare, parseInt, escapeHtml, encodeURI) are computed character  *)
(* by character.                                                           *)
(***************************************************************************)
EXTENDS Integers, Sequences, FiniteSets, TLC

VARIABLES
    pc,          \* position of the running program
    src,         \* the source tree src/generated_html: path -> node
    dist,        \* the destination tree dist: path -> node
    trips,       \* the list discoverTrips returned in this build
    cursor,      \* copyTripContent: number of trips already copied
    written,     \* destination path -> number of times this build wrote it
    prev,        \* what the previous build returned and left in dist
    tz,          \* the process's time zone: minutes east of UTC
    files,       \* the names handed to sortAiFiles
    sorted,      \* sortAiFiles: the returned array
    resorted,    \* sortAiFiles applied to its own result
    slug,        \* the slug handed to formatTripTitle and the renderer
    title,       \* formatTripTitle: the returned title
    page,        \* the page the renderer returned
    payload,     \* the value handed to serializeJson
    doc,         \* the document a client script runs in
    parsed,      \* parseJsonScript: the returned value
    exitCode,    \* process.exitCode of the build
    request,     \* dev server: the request being answered
    response     \* dev server: the answer, and the file read for it

buildVars == <<src, dist, trips, cursor, written, prev>>
sortVars == <<files, sorted, resorted>>

clientVars == <<payload, doc, parsed>>
serverVars == <<request, response>>

vars == <<pc, src, dist, trips, cursor, written, prev, tz,
          files, sorted, resorted, slug, title, page, payload, doc, parsed, exitCode, serverVars>>

\* The dev server has received no request.
NoRequest == [received |-> FALSE]
NoResponse == [sent |-> FALSE]
ServerIdle == request = NoRequest /\ response = NoResponse

(***************************************************************************)
(* Bounds of the model.                                                    *)
(***************************************************************************)
MaxSortLen == 3      \* longest array handed to sortAiFiles

(***************************************************************************)
(* Characters.                                                             *)
(***************************************************************************)
UpperChars == <<"A","B","C","D","E","F","G","H","I","J","K","L","M",
                "N","O","P","Q","R","S","T","U","V","W","X","Y","Z">>
LowerChars == <<"a","b","c","d","e","f","g","h","i","j","k","l","m",
                "n","o","p","q","r","s","t","u","v","w","x","y","z">>
DigitChars == <<"0","1","2","3","4","5","6","7","8","9">>

\* The characters of the model in increasing UTF-16 code unit order.
CodeUnitOrder ==
    <<"\n", " ", "\"", "#", "%", "&", "'", ",", "-", ".", "/">> \o DigitChars
    \o <<";", "<", ">">> \o UpperChars \o <<"_">> \o LowerChars

Chars == { CodeUnitOrder[i] : i \in 1..Len(CodeUnitOrder) }

IndexIn(c, order) == CHOOSE i \in 1..Len(order) : order[i] = c

CodeUnit == [c \in Chars |-> IndexIn(c, CodeUnitOrder)]

\* String.prototype.toLowerCase on one character.
LowerOf ==
    [c \in Chars |->
        IF \E i \in 1..26 : UpperChars[i] = c
        THEN LowerChars[IndexIn(c, UpperChars)]
        ELSE c]

\* String.prototype.toUpperCase on one character.
UpperOf ==
    [c \in Chars |->
        IF \E i \in 1..26 : LowerChars[i] = c
        THEN UpperChars[IndexIn(c, LowerChars)]
        ELSE c]

toLowerCase(s) == [i \in 1..Len(s) |-> LowerOf[s[i]]]

IsWhitespace(c) == c \in {" ", "\n"}

(***************************************************************************)
(* String.prototype.localeCompare under the default (root) collation:      *)
(* whitespace, then punctuation, then digits, then letters; letters are    *)
(* compared without regard to case first, and only strings that are equal  *)
(* up to case are ordered by case, lower case first.                       *)
(***************************************************************************)
CollationOrder ==
    <<"\n", " ", "_", "-", ",", ";", ".", "'", "\"", "/", "&", "#", "%", "<", ">">>
    \o DigitChars \o LowerChars

Primary == [c \in Chars |-> IndexIn(LowerOf[c], CollationOrder)]

\* 0 for a lower-case (or caseless) character, 1 for an upper-case one.
Tertiary == [c \in Chars |-> IF LowerOf[c] = c THEN 0 ELSE 1]

Sign(n) == IF n < 0 THEN -1 ELSE IF n > 0 THEN 1 ELSE 0

\* Lexicographic comparison of a and b by the weight w of each character.
RECURSIVE CompareBy(_, _, _)
CompareBy(w, a, b) ==
    IF a = <<>> /\ b = <<>> THEN 0
    ELSE IF a = <<>> THEN -1
    ELSE IF b = <<>> THEN 1
    ELSE IF w[Head(a)] # w[Head(b)] THEN Sign(w[Head(a)] - w[Head(b)])
    ELSE CompareBy(w, Tail(a), Tail(b))

localeCompare(a, b) ==
    LET p == CompareBy(Primary, a, b)
    IN  IF p # 0 THEN p ELSE CompareBy(Tertiary, a, b)

\* The relational operators of the language on strings: code unit order.
CodeUnitCompare(a, b) == CompareBy(CodeUnit, a, b)

(***************************************************************************)
(* Array.prototype.sort: a stable sort by the comparator cmp.              *)
(***************************************************************************)
\* cmp is the comparator tabulated over the elements: cmp[x, y] is compare(x, y).
RECURSIVE InsertStable(_, _, _)
InsertStable(cmp, x, s) ==
    IF s = <<>> THEN <<x>>
    ELSE IF cmp[x, Head(s)] < 0 THEN <<x>> \o s
    ELSE <<Head(s)>> \o InsertStable(cmp, x, Tail(s))

RECURSIVE SortFrom(_, _, _)
SortFrom(cmp, done, rest) ==
    IF rest = <<>> THEN done
    ELSE SortFrom(cmp, InsertStable(cmp, Head(rest), done), Tail(rest))

ArraySort(cmp, s) == SortFrom(cmp, <<>>, s)

Range(s) == { s[i] : i \in 1..Len(s) }

(***************************************************************************)
(* File names of the build.                                                *)
(***************************************************************************)
DotHtml == <<".", "h", "t", "m", "l">>
INDEX_FILENAME == <<"i", "n", "d", "e", "x">> \o DotHtml
OVERVIEW_FILENAME == <<"o", "v", "e", "r", "v", "i", "e", "w">> \o DotHtml

AGENT_ORDER ==
    << <<"c", "l", "a", "u", "d", "e">>,
       <<"g", "p", "t">>,
       <<"g", "e", "m", "i", "n", "i">>,
       <<"g", "r", "o", "k">> >>

endsWith(s, suffix) ==
    /\ Len(s) >= Len(suffix)
    /\ SubSeq(s, Len(s) - Len(suffix) + 1, Len(s)) = suffix

\* filename.replace(/\.html$/i, "")
StripHtmlExt(filename) ==
    IF endsWith(toLowerCase(filename), DotHtml)
    THEN SubSeq(filename, 1, Len(filename) - Len(DotHtml))
    ELSE filename

\* AGENT_ORDER.indexOf(base): zero-based, -1 when absent.
AgentIndexOf(base) ==
    IF \E i \in 1..Len(AGENT_ORDER) : AGENT_ORDER[i] = base
    THEN (CHOOSE i \in 1..Len(AGENT_ORDER) : AGENT_ORDER[i] = base) - 1
    ELSE -1

getAgentSortKey_NoRemap(filename) ==
    LET base == toLowerCase(StripHtmlExt(filename))
    IN  <<AgentIndexOf(base), base>>

getAgentSortKey(filename) ==
    LET base == toLowerCase(StripHtmlExt(filename))
        bucketIndex == AgentIndexOf(base)
    IN  <<IF bucketIndex = -1 THEN Len(AGENT_ORDER) ELSE bucketIndex, base>>

AiCompare(a, b) ==
    LET ka == getAgentSortKey(a)
        kb == getAgentSortKey(b)
    IN  IF ka[1] # kb[1] THEN ka[1] - kb[1] ELSE localeCompare(ka[2], kb[2])

sortAiFiles(fs) ==
    ArraySort([a \in Range(fs), b \in Range(fs) |-> AiCompare(a, b)], fs)

\* What the caller's array holds after sortAiFiles(files): the sort runs on
\* the copy [...files], so the argument keeps its order.
ArgumentAfterSort(fs) == fs

(***************************************************************************)
(* formatTripTitle and the library functions it calls.                     *)
(***************************************************************************)
\* s.split(c), for c in seps: the pieces between separators, empty ones kept.
RECURSIVE SplitFrom(_, _, _)
SplitFrom(s, seps, piece) ==
    IF s = <<>> THEN <<piece>>
    ELSE IF Head(s) \in seps THEN <<piece>> \o SplitFrom(Tail(s), seps, <<>>)
    ELSE SplitFrom(Tail(s), seps, Append(piece, Head(s)))

split(s, seps) == SplitFrom(s, seps, <<>>)

IsDigit(c) == \E i \in 1..Len(DigitChars) : DigitChars[i] = c
DigitValue(c) == IndexIn(c, DigitChars) - 1

RECURSIVE SkipWhitespace(_)
SkipWhitespace(s) ==
    IF s # <<>> /\ IsWhitespace(Head(s)) THEN SkipWhitespace(Tail(s)) ELSE s

\* The value of the longest prefix of digits of s, acc being the value so far.
RECURSIVE DigitsValue(_, _)
DigitsValue(s, acc) ==
    IF s = <<>> \/ ~IsDigit(Head(s)) THEN acc
    ELSE DigitsValue(Tail(s), acc * 10 + DigitValue(Head(s)))

\* A number: NaN, or a finite integer.
NaN == [finite |-> FALSE, value |-> 0]
Number(n) == [finite |-> TRUE, value |-> n]

\* Number.parseInt(s, 10); the separator "-" never reaches it, so no sign.
parseInt(s) ==
    LET t == SkipWhitespace(s)
    IN  IF t = <<>> \/ ~IsDigit(Head(t)) THEN NaN ELSE Number(DigitsValue(t, 0))

isFinite(n) == n.finite

\* Days from 1970-01-01 to the civil date y-m-d (m in 1..12).
DaysFromCivil(y, m, d) ==
    LET yy == IF m <= 2 THEN y - 1 ELSE y
        era == yy \div 400
        yoe == yy - era * 400
        mp == (m + 9) % 12
        doy == (153 * mp + 2) \div 5 + d - 1
        doe == yoe * 365 + yoe \div 4 - yoe \div 100 + doy
    IN  era * 146097 + doe - 719468

\* The civil date <<y, m, d>> of a day number.
CivilFromDays(z) ==
    LET zz == z + 719468
        era == zz \div 146097
        doe == zz - era * 146097
        yoe == (doe - doe \div 1460 + doe \div 36524 - doe \div 146096) \div 365
        doy == doe - (365 * yoe + yoe \div 4 - yoe \div 100)
        mp == (5 * doy + 2) \div 153
        d == doy - (153 * mp + 2) \div 5 + 1
        m == IF mp < 10 THEN mp + 3 ELSE mp - 9
    IN  <<IF m <= 2 THEN yoe + era * 400 + 1 ELSE yoe + era * 400, m, d>>

MinutesPerDay == 1440

\* Date.UTC(year, monthIndex, day) in minutes since the epoch: a year in
\* 0..99 means 1900 + year, and a month index outside 0..11 carries into
\* the year.
DateUTC(year, monthIndex, day) ==
    LET fullYear == IF year >= 0 /\ year <= 99 THEN 1900 + year ELSE year
        ym == fullYear + monthIndex \div 12
        mn == monthIndex % 12
    IN  (DaysFromCivil(ym, mn + 1, 1) + day - 1) * MinutesPerDay

MonthNames ==
    << <<"J","a","n","u","a","r","y">>, <<"F","e","b","r","u","a","r","y">>,
       <<"M","a","r","c","h">>, <<"A","p","r","i","l">>, <<"M","a","y">>,
       <<"J","u","n","e">>, <<"J","u","l","y">>, <<"A","u","g","u","s","t">>,
       <<"S","e","p","t","e","m","b","e","r">>, <<"O","c","t","o","b","e","r">>,
       <<"N","o","v","e","m","b","e","r">>, <<"D","e","c","e","m","b","e","r">> >>

\* The decimal digits of a natural number.
RECURSIVE NumberToString(_)
NumberToString(n) ==
    IF n < 10 THEN <<DigitChars[n + 1]>>
    ELSE NumberToString(n \div 10) \o <<DigitChars[(n % 10) + 1]>>

\* Intl.DateTimeFormat("en", {year: "numeric", month: "long", day:
\* "numeric"}).format(date): no timeZone option is given, so the date is
\* rendered in the process's time zone, zone minutes east of UTC.
FormatLongDate(minutes, zone) ==
    LET ymd == CivilFromDays((minutes + zone) \div MinutesPerDay)
    IN  MonthNames[ymd[2]] \o <<" ">> \o NumberToString(ymd[3])
          \o <<",", " ">> \o NumberToString(ymd[1])

formatTripTitle(s) ==
    LET parts == split(s, {"-"})
    IN  IF Len(parts) = 3
        THEN LET year == parseInt(parts[1])
                 month == parseInt(parts[2])
                 day == parseInt(parts[3])
             IN  IF isFinite(year) /\ isFinite(month) /\ isFinite(day)
                 THEN FormatLongDate(DateUTC(year.value, month.value - 1, day.value), tz)
                 ELSE s
        ELSE s

\* formatAgentLabel (also the word-capitalized form of a name): split on
\* runs of "-", "_" and white space, drop empty pieces, capitalize each.
Capitalize(segment) == <<UpperOf[Head(segment)]>> \o Tail(segment)

RECURSIVE JoinWith(_, _)
JoinWith(pieces, sep) ==
    IF pieces = <<>> THEN <<>>
    ELSE IF Len(pieces) = 1 THEN Head(pieces)
    ELSE Head(pieces) \o sep \o JoinWith(Tail(pieces), sep)

WordCapitalize(s) ==
    LET pieces == SelectSeq(split(s, {"-", "_", " ", "\n"}), LAMBDA x : x # <<>>)
    IN  JoinWith([i \in 1..Len(pieces) |-> Capitalize(pieces[i])], <<" ">>)

formatAgentLabel(filename) == WordCapitalize(StripHtmlExt(filename))

(***************************************************************************)
(* The page renderer.                                                      *)
(***************************************************************************)
\* s.replace(/c/g, rep)
RECURSIVE ReplaceAll(_, _, _)
ReplaceAll(s, c, rep) ==
    IF s = <<>> THEN <<>>
    ELSE IF Len(s) = 1 THEN (IF s[1] = c THEN rep ELSE s)
    ELSE LET half == Len(s) \div 2
         IN  ReplaceAll(SubSeq(s, 1, half), c, rep)
             \o ReplaceAll(SubSeq(s, half + 1, Len(s)), c, rep)

escapeHtml_NoQuotes(input) ==
    ReplaceAll(ReplaceAll(ReplaceAll(input,
        "&", <<"&","a","m","p",";">>),
        "<", <<"&","l","t",";">>),
        ">", <<"&","g","t",";">>)

escapeHtml(input) ==
    ReplaceAll(ReplaceAll(ReplaceAll(ReplaceAll(ReplaceAll(input,
        "&", <<"&","a","m","p",";">>),
        "<", <<"&","l","t",";">>),
        ">", <<"&","g","t",";">>),
        "\"", <<"&","q","u","o","t",";">>),
        "'", <<"&","#","0","3","9",";">>)

\* encodeURI on one character: letters, digits and ; , / ? : @ & = + $ - _ .
\* ! ~ * ' ( ) # are kept, every other character becomes %XX.
EncodeURIChar(c) ==
    CASE c = "\n" -> <<"%","0","A">>
      [] c = " "  -> <<"%","2","0">>
      [] c = "\"" -> <<"%","2","2">>
      [] c = "%"  -> <<"%","2","5">>
      [] c = "<"  -> <<"%","3","C">>
      [] c = ">"  -> <<"%","3","E">>
      [] OTHER    -> <<c>>

RECURSIVE encodeURI(_)
encodeURI(s) ==
    IF s = <<>> THEN <<>> ELSE EncodeURIChar(Head(s)) \o encodeURI(Tail(s))

\* One place of a page template where data is embedded: in element text
\* or in an attribute value, between the fixed text before and after it.
TextHole(raw) ==
    [ctx |-> "text", before |-> <<>>, out |-> escapeHtml(raw), after |-> <<>>]
HrefHole(before, raw, after) ==
    [ctx |-> "href", before |-> before, out |-> encodeURI(raw), after |-> after]

DotSlash == <<".", "/">>
Slash == <<"/">>

\* The fallback entry of one trip on the top-level page (tripLinks).
TripLinkHoles(trip) ==
    << TextHole(trip.title),
       TextHole(trip.slug),
       HrefHole(DotSlash, trip.slug, Slash),
       HrefHole(DotSlash, trip.slug, Slash \o OVERVIEW_FILENAME) >>

\* manifest.map(...).join("\n")
RECURSIVE TripLinks(_)
TripLinks(manifest) ==
    IF manifest = <<>> THEN <<>>
    ELSE TripLinkHoles(Head(manifest)) \o TripLinks(Tail(manifest))

ManifestItem(trip) ==
    [slug |-> trip.slug, title |-> trip.title, aiFiles |-> trip.aiFiles]

APP_SCRIPT == <<".", "/", "a", "s", "s", "e", "t", "s", "/", "a", "p", "p", ".", "j", "s">>
TRIP_SCRIPT == <<".", ".", "/", "a", "s", "s", "e", "t", "s", "/", "t", "r", "i", "p", ".", "j", "s">>

(***************************************************************************)
(* JSON.  A JSON value is a record told apart by its fields: a string      *)
(* [str], an array [arr], an object [keys, vals] with its keys in          *)
(* insertion order, a number [num] or one of null, true, false [lit].      *)
(***************************************************************************)
Str(s) == [str |-> s]
Arr(elems) == [arr |-> elems]
Obj(keys, vals) == [keys |-> keys, vals |-> vals]
Num(n) == [num |-> n]
Lit(word) == [lit |-> word]
JsonNull == Lit(<<"n", "u", "l", "l">>)

IsStr(v) == DOMAIN v = {"str"}
IsArr(v) == DOMAIN v = {"arr"}
IsObj(v) == DOMAIN v = {"keys", "vals"}

\* obj[key], or undefined
HasKey(v, key) == IsObj(v) /\ \E i \in 1..Len(v.keys) : v.keys[i] = key
Get(v, key) == v.vals[CHOOSE i \in 1..Len(v.keys) : v.keys[i] = key]

\* JSON.stringify on one character of a string.
QuoteChar(c) ==
    CASE c = "\"" -> <<"\\", "\"">>
      [] c = "\\" -> <<"\\", "\\">>
      [] c = "\n" -> <<"\\", "n">>
      [] OTHER    -> <<c>>

RECURSIVE QuoteChars(_)
QuoteChars(s) ==
    IF s = <<>> THEN <<>> ELSE QuoteChar(Head(s)) \o QuoteChars(Tail(s))

\* JSON.stringify on a string.
Quote(s) == <<"\"">> \o QuoteChars(s) \o <<"\"">>

RECURSIVE JSONstringify(_)
RECURSIVE StringifyElems(_)
RECURSIVE StringifyMembers(_, _)

StringifyElems(elems) ==
    IF elems = <<>> THEN <<>>
    ELSE JSONstringify(Head(elems))
         \o (IF Len(elems) > 1 THEN <<",">> ELSE <<>>)
         \o StringifyElems(Tail(elems))

StringifyMembers(keys, vals) ==
    IF keys = <<>> THEN <<>>
    ELSE Quote(Head(keys)) \o <<":">> \o JSONstringify(Head(vals))
         \o (IF Len(keys) > 1 THEN <<",">> ELSE <<>>)
         \o StringifyMembers(Tail(keys), Tail(vals))

\* JSON.stringify(value), without indentation.
JSONstringify(v) ==
    CASE IsStr(v) -> Quote(v.str)
      [] IsArr(v) -> <<"[">> \o StringifyElems(v.arr) \o <<"]">>
      [] IsObj(v) -> <<"{">> \o StringifyMembers(v.keys, v.vals) \o <<"}">>
      [] DOMAIN v = {"num"} -> NumberToString(v.num)
      [] OTHER    -> v.lit

U003C == <<"\\", "u", "0", "0", "3", "c">>

serializeJson_NoEscape(value) == JSONstringify(value)

\* JSON.stringify(value).replace(/</g, "\\u003c")
serializeJson(value) == ReplaceAll(JSONstringify(value), "<", U003C)

\* The \uXXXX escapes of the characters of the model that are written so.
UnicodeEscapes ==
    { <<<<"0", "0", "3", "c">>, "<">>, <<<<"0", "0", "3", "C">>, "<">>,
      <<<<"0", "0", "2", "2">>, "\"">>, <<<<"0", "0", "0", "a">>, "\n">> }

IsJsonSpace(c) == c \in {" ", "\n"}

RECURSIVE SkipJsonSpace(_, _)
SkipJsonSpace(s, i) ==
    IF i <= Len(s) /\ IsJsonSpace(s[i]) THEN SkipJsonSpace(s, i + 1) ELSE i

SyntaxError == [ok |-> FALSE]
Parsed(v, next) == [ok |-> TRUE, v |-> v, next |-> next]

\* The characters of a string literal from position i, after the opening
\* quote, up to the closing quote.
RECURSIVE ParseChars(_, _, _)
ParseChars(s, i, acc) ==
    IF i > Len(s) THEN SyntaxError
    ELSE IF s[i] = "\"" THEN Parsed(acc, i + 1)
    ELSE IF s[i] = "\n" THEN SyntaxError
    ELSE IF s[i] # "\\" THEN ParseChars(s, i + 1, Append(acc, s[i]))
    ELSE IF i + 1 > Len(s) THEN SyntaxError
    ELSE IF s[i + 1] \in {"\"", "\\", "/"}
         THEN ParseChars(s, i + 2, Append(acc, s[i + 1]))
    ELSE IF s[i + 1] = "n" THEN ParseChars(s, i + 2, Append(acc, "\n"))
    ELSE IF s[i + 1] = "u" /\ i + 5 <= Len(s)
            /\ \E e \in UnicodeEscapes : e[1] = SubSeq(s, i + 2, i + 5)
         THEN LET e == CHOOSE e \in UnicodeEscapes : e[1] = SubSeq(s, i + 2, i + 5)
              IN  ParseChars(s, i + 6, Append(acc, e[2]))
    ELSE SyntaxError

RECURSIVE DigitsEnd(_, _)
DigitsEnd(s, i) ==
    IF i <= Len(s) /\ IsDigit(s[i]) THEN DigitsEnd(s, i + 1) ELSE i

StartsWith(s, i, word) ==
    i + Len(word) - 1 <= Len(s) /\ SubSeq(s, i, i + Len(word) - 1) = word

RECURSIVE ParseValue(_, _)
RECURSIVE ParseElems(_, _, _)
RECURSIVE ParseMembers(_, _, _, _)

\* The elements of an array from position i, after "[" or ",".
ParseElems(s, i, acc) ==
    LET j == SkipJsonSpace(s, i)
    IN  IF j <= Len(s) /\ s[j] = "]" /\ acc = <<>> THEN Parsed(Arr(<<>>), j + 1)
        ELSE LET r == ParseValue(s, j)
             IN  IF ~r.ok THEN SyntaxError
                 ELSE LET k == SkipJsonSpace(s, r.next)
                      IN  IF k > Len(s) THEN SyntaxError
                          ELSE IF s[k] = "," THEN ParseElems(s, k + 1, Append(acc, r.v))
                          ELSE IF s[k] = "]" THEN Parsed(Arr(Append(acc, r.v)), k + 1)
                          ELSE SyntaxError

\* The members of an object from position i, after "{" or ",".
ParseMembers(s, i, keys, vals) ==
    LET j == SkipJsonSpace(s, i)
    IN  IF j <= Len(s) /\ s[j] = "}" /\ keys = <<>> THEN Parsed(Obj(<<>>, <<>>), j + 1)
        ELSE IF j > Len(s) \/ s[j] # "\"" THEN SyntaxError
        ELSE LET key == ParseChars(s, j + 1, <<>>)
             IN  IF ~key.ok THEN SyntaxError
                 ELSE LET c == SkipJsonSpace(s, key.next)
                      IN  IF c > Len(s) \/ s[c] # ":" THEN SyntaxError
                          ELSE LET r == ParseValue(s, c + 1)
                               IN  IF ~r.ok THEN SyntaxError
                                   ELSE LET k == SkipJsonSpace(s, r.next)
                                        IN  IF k > Len(s) THEN SyntaxError
                                            ELSE IF s[k] = ","
                                                 THEN ParseMembers(s, k + 1, Append(keys, key.v), Append(vals, r.v))
                                            ELSE IF s[k] = "}"
                                                 THEN Parsed(Obj(Append(keys, key.v), Append(vals, r.v)), k + 1)
                                            ELSE SyntaxError

\* One JSON value from position i.  Of the numbers, only the integers
\* without sign, fraction and exponent are read.
ParseValue(s, i) ==
    LET j == SkipJsonSpace(s, i)
    IN  IF j > Len(s) THEN SyntaxError
        ELSE IF s[j] = "\"" THEN
             LET r == ParseChars(s, j + 1, <<>>)
             IN  IF r.ok THEN Parsed(Str(r.v), r.next) ELSE SyntaxError
        ELSE IF s[j] = "[" THEN ParseElems(s, j + 1, <<>>)
        ELSE IF s[j] = "{" THEN ParseMembers(s, j + 1, <<>>, <<>>)
        ELSE IF \E w \in {<<"n","u","l","l">>, <<"t","r","u","e">>, <<"f","a","l","s","e">>} :
                    StartsWith(s, j, w)
             THEN LET w == CHOOSE w \in {<<"n","u","l","l">>, <<"t","r","u","e">>,
                                         <<"f","a","l","s","e">>} : StartsWith(s, j, w)
                  IN  Parsed(Lit(w), j + Len(w))
        ELSE IF IsDigit(s[j]) /\ (s[j] # "0" \/ DigitsEnd(s, j) = j + 1)
             THEN Parsed(Num(DigitsValue(SubSeq(s, j, DigitsEnd(s, j) - 1), 0)), DigitsEnd(s, j))
        ELSE SyntaxError

\* JSON.parse(text): the value, or a SyntaxError thrown.
JSONparse(text) ==
    LET r == ParseValue(text, 1)
    IN  IF r.ok /\ SkipJsonSpace(text, r.next) > Len(text)
        THEN [ok |-> TRUE, v |-> r.v]
        ELSE SyntaxError

\* No document is open and no script has run.
NoDoc == [kind |-> "none"]
ClientIdle == payload = JsonNull /\ doc = NoDoc /\ parsed = JsonNull

\* The values the build serializes: arrays of strings, manifest items and
\* the data of a trip page, their keys in the order of the object literals.
K_slug == <<"s", "l", "u", "g">>
K_title == <<"t", "i", "t", "l", "e">>
K_aiFiles == <<"a", "i", "F", "i", "l", "e", "s">>
K_overviewPath == <<"o", "v", "e", "r", "v", "i", "e", "w", "P", "a", "t", "h">>

StringArray(names) == Arr([i \in 1..Len(names) |-> Str(names[i])])

ManifestItemJson(item) ==
    Obj(<<K_slug, K_title, K_aiFiles>>,
        <<Str(item.slug), Str(item.title), StringArray(item.aiFiles)>>)

ManifestJson(manifest) ==
    Arr([i \in 1..Len(manifest) |-> ManifestItemJson(manifest[i])])

TripDataJson_IndexPath(trip) ==
    Obj(<<K_slug, K_title, K_aiFiles, K_overviewPath>>,
        <<Str(trip.slug), Str(trip.title), StringArray(trip.aiFiles),
          Str(DotSlash \o INDEX_FILENAME)>>)

TripDataJson(trip) ==
    Obj(<<K_slug, K_title, K_aiFiles, K_overviewPath>>,
        <<Str(trip.slug), Str(trip.title), StringArray(trip.aiFiles),
          Str(DotSlash \o OVERVIEW_FILENAME)>>)

\* The script element with id trip-data: absent, or holding the text that
\* serializeJson made of the value.
NoData == [present |-> FALSE]
Data(value) == [present |-> TRUE, text |-> serializeJson(value)]

renderIndexHtml_NoEmptyPage(ts) ==
    LET manifest == [i \in 1..Len(ts) |-> ManifestItem(ts[i])]
    IN  [kind |-> "explorer",
         holes |-> TripLinks(manifest),
         count |-> Len(ts),
         data |-> Data(ManifestJson(manifest)),
         script |-> APP_SCRIPT]

renderIndexHtml(ts) ==
    IF Len(ts) = 0
    THEN [kind |-> "noTrips", holes |-> <<>>, count |-> 0,
          data |-> NoData, script |-> <<>>]
    ELSE LET manifest == [i \in 1..Len(ts) |-> ManifestItem(ts[i])]
         IN  [kind |-> "explorer",
              holes |-> TripLinks(manifest),
              count |-> Len(ts),
              data |-> Data(ManifestJson(manifest)),
              script |-> APP_SCRIPT]

\* The direct links of a trip page (fallbackList), one per AI file.
RECURSIVE AiLinks(_)
AiLinks(aiFiles) ==
    IF aiFiles = <<>> THEN <<>>
    ELSE << HrefHole(DotSlash, Head(aiFiles), <<>>),
            TextHole(formatAgentLabel(Head(aiFiles))) >>
         \o AiLinks(Tail(aiFiles))

renderTripHtml(trip) ==
    [kind |-> "hub",
     holes |-> << TextHole(trip.title), TextHole(trip.title), TextHole(trip.slug) >>
               \o AiLinks(trip.aiFiles),
     count |-> Len(trip.aiFiles),
     data |-> Data(TripDataJson(trip)),
     script |-> TRIP_SCRIPT]

\* The placeholder document, by its heading.
FALLBACK_OVERVIEW_HTML ==
    <<"<", "h", "1", ">", "O", "v", "e", "r", "v", "i", "e", "w", " ",
      "n", "o", "t", " ", "p", "r", "o", "v", "i", "d", "e", "d",
      "<", "/", "h", "1", ">">>

(***************************************************************************)
(* The file system.  A tree maps each path below its root (a sequence of   *)
(* names) to a node: a regular file with its content, a directory, or a    *)
(* symbolic link to a regular file (with the content read through it).     *)
(* Names are compared exactly, as on a case-sensitive file system.         *)
(***************************************************************************)
Text(chars) == [text |-> chars]
FileNode(content) == [kind |-> "file", content |-> content]
LinkNode(content) == [kind |-> "symlink", content |-> content]
DirNode == [kind |-> "dir"]

Root == <<>>
NoFiles == [q \in {} |-> DirNode]

BaseName(path) == path[Len(path)]

\* The paths of the entries of directory dir.
Children(tree, dir) ==
    { q \in DOMAIN tree :
         Len(q) = Len(dir) + 1 /\ SubSeq(q, 1, Len(dir)) = dir }

\* fs.readdir(dir): the names of the entries, in an order the file system
\* chooses; Orderings gives every order a listing may come in.
readdir(tree, dir) == { BaseName(q) : q \in Children(tree, dir) }

Orderings(S) ==
    { o \in [1..Cardinality(S) -> S] : \A i, j \in 1..Cardinality(S) : i # j => o[i] # o[j] }

\* Dirent.isDirectory() and Dirent.isFile(): both false for a symbolic link.
isDirectory(tree, path) == tree[path].kind = "dir"
isFile(tree, path) == tree[path].kind = "file"

\* fs.readFile(path, "utf8")
readFile(tree, path) ==
    IF path \notin DOMAIN tree THEN [code |-> "ENOENT"]
    ELSE IF tree[path].kind = "dir" THEN [code |-> "EISDIR"]
    ELSE [code |-> "OK", raw |-> tree[path].content.text]

\* String.prototype.trim
RECURSIVE TrimEnd(_)
TrimEnd(s) ==
    IF s # <<>> /\ IsWhitespace(s[Len(s)]) THEN TrimEnd(SubSeq(s, 1, Len(s) - 1)) ELSE s

trim(s) == TrimEnd(SkipWhitespace(s))

(***************************************************************************)
(* discoverTrips.                                                          *)
(***************************************************************************)
isHtmlFile(file) == endsWith(toLowerCase(file), DotHtml)

isAiFile_CaseSensitive(file) ==
    file # INDEX_FILENAME /\ file # OVERVIEW_FILENAME

\* The filter of line 59 on the .html names.
isAiFile(file) ==
    toLowerCase(file) # INDEX_FILENAME /\ toLowerCase(file) # OVERVIEW_FILENAME

overviewFromRaw_Trimmed(raw) ==
    IF Len(trim(raw)) > 0 THEN trim(raw) ELSE FALLBACK_OVERVIEW_HTML

overviewFromRaw_NoTrim(raw) ==
    IF Len(raw) > 0 THEN raw ELSE FALLBACK_OVERVIEW_HTML

\* The overview of a trip whose index.html was read as raw.
overviewFromRaw(raw) ==
    IF Len(trim(raw)) > 0 THEN raw ELSE FALLBACK_OVERVIEW_HTML

\* One iteration of the loop over the trip folders: the trip of folder s,
\* whose directory was listed in the order listing; thrown when the read
\* of index.html fails with anything but ENOENT.
discoverTrip(tree, s, listing) ==
    LET htmlFiles == SelectSeq(listing, isHtmlFile)
        aiFiles == sortAiFiles(SelectSeq(htmlFiles, isAiFile))
        read == readFile(tree, <<s, INDEX_FILENAME>>)
    IN  IF read.code \notin {"OK", "ENOENT"}
        THEN [thrown |-> TRUE]
        ELSE [thrown |-> FALSE,
              trip |-> [slug |-> s,
                        title |-> formatTripTitle(s),
                        aiFiles |-> aiFiles,
                        overviewHtml |-> IF read.code = "OK"
                                         THEN overviewFromRaw(read.raw)
                                         ELSE FALLBACK_OVERVIEW_HTML]]

TripCompare_Ascending(a, b) == localeCompare(a.slug, b.slug)

\* (a, b) => b.slug.localeCompare(a.slug)
TripCompare(a, b) == localeCompare(b.slug, a.slug)

sortTrips(ts) ==
    ArraySort([a \in Range(ts), b \in Range(ts) |-> TripCompare(a, b)], ts)

\* The folders of the root listing, in listing order.
tripFolders(tree, rootListing) ==
    SelectSeq(rootListing, LAMBDA name : isDirectory(tree, <<name>>))

\* discoverTrips, the root listed as rootListing and each trip directory d
\* as listings[d].
discoverTrips(tree, rootListing, listings) ==
    LET folders == tripFolders(tree, rootListing)
        found == [i \in 1..Len(folders) |->
                    discoverTrip(tree, folders[i], listings[folders[i]])]
    IN  IF \E i \in 1..Len(found) : found[i].thrown
        THEN [thrown |-> TRUE]
        ELSE [thrown |-> FALSE,
              trips |-> sortTrips([i \in 1..Len(found) |-> found[i].trip])]

\* Every way the trip directories of dirs may be listed.
RECURSIVE ListingsOf(_, _)
ListingsOf(tree, dirs) ==
    IF dirs = {} THEN { [d \in {} |-> <<>>] }
    ELSE LET d == CHOOSE x \in dirs : TRUE
         IN  { (d :> o) @@ rest :
                 o \in Orderings(readdir(tree, <<d>>)),
                 rest \in ListingsOf(tree, dirs \ {d}) }

(***************************************************************************)
(* Writing the destination tree.  An output is the tree, the number of     *)
(* times each path was written, and whether a write has thrown.            *)
(***************************************************************************)
Output(tree, writes) == [tree |-> tree, writes |-> writes, thrown |-> FALSE]

Bump(writes, path) ==
    (path :> (IF path \in DOMAIN writes THEN writes[path] + 1 ELSE 1)) @@ writes

\* fs.mkdir(path, {recursive: true}): no error when the directory exists.
mkdir(out, path) ==
    IF out.thrown THEN out
    ELSE IF path \in DOMAIN out.tree /\ out.tree[path].kind # "dir"
    THEN [out EXCEPT !.thrown = TRUE]
    ELSE [out EXCEPT !.tree = (path :> DirNode) @@ out.tree,
                     !.writes = Bump(out.writes, path)]

\* fs.writeFile and fs.copyFile: the file at path is created or replaced;
\* EISDIR when path is a directory.
writeFile(out, path, content) ==
    IF out.thrown THEN out
    ELSE IF path \in DOMAIN out.tree /\ out.tree[path].kind = "dir"
    THEN [out EXCEPT !.thrown = TRUE]
    ELSE [out EXCEPT !.tree = (path :> FileNode(content)) @@ out.tree,
                     !.writes = Bump(out.writes, path)]

resetDist_KeepsOld(tree) == tree

\* fs.rm(DIST_DIR, {recursive: true, force: true}); fs.mkdir(DIST_DIR)
resetDist(tree) == NoFiles

RECURSIVE copyDirectory(_, _, _, _)
RECURSIVE copyEntries(_, _, _, _)

\* The loop of copyDirectory over the entries still to copy.
copyEntries(tree, entries, destination, out) ==
    IF entries = {} THEN out
    ELSE LET srcPath == CHOOSE e \in entries : TRUE
             destPath == Append(destination, BaseName(srcPath))
             copied ==
                 IF isDirectory(tree, srcPath)
                 THEN copyDirectory(tree, srcPath, destPath, out)
                 ELSE IF isFile(tree, srcPath)
                 THEN IF toLowerCase(BaseName(srcPath)) = INDEX_FILENAME
                      THEN out
                      ELSE writeFile(out, destPath, tree[srcPath].content)
                 ELSE out
         IN  copyEntries(tree, entries \ {srcPath}, destination, copied)

copyDirectory(tree, source, destination, out) ==
    copyEntries(tree, Children(tree, source), destination,
                mkdir(out, destination))

writeTripPage(out, destination, trip) ==
    writeFile(out, Append(destination, INDEX_FILENAME), renderTripHtml(trip))

\* One iteration of the loop of copyTripContent.
copyTrip(tree, out, trip) ==
    LET destination == <<trip.slug>>
        copied == copyDirectory(tree, <<trip.slug>>, destination, out)
        overview == writeFile(copied, Append(destination, OVERVIEW_FILENAME),
                              Text(trip.overviewHtml))
    IN  writeTripPage(overview, destination, trip)

writeIndexHtml(out, ts) ==
    writeFile(out, <<INDEX_FILENAME>>, renderIndexHtml(ts))

N_assets == <<"a", "s", "s", "e", "t", "s">>
BundleFiles ==
    { <<"a", "p", "p", ".", "j", "s">>,
      <<"a", "p", "p", ".", "j", "s", ".", "m", "a", "p">>,
      <<"t", "r", "i", "p", ".", "j", "s">>,
      <<"t", "r", "i", "p", ".", "j", "s", ".", "m", "a", "p">> }

RECURSIVE writeBundles(_, _)
writeBundles(out, names) ==
    IF names = {} THEN out
    ELSE LET n == CHOOSE x \in names : TRUE
         IN  writeBundles(writeFile(out, <<N_assets, n>>, [bundle |-> n]),
                          names \ {n})

\* bundleClient: the assets directory, then esbuild's four output files.
bundleClient(out) == writeBundles(mkdir(out, <<N_assets>>), BundleFiles)

(***************************************************************************)
(* Inputs of the sortAiFiles specification.                                *)
(***************************************************************************)
Html(base) == base \o DotHtml

N_claude == Html(<<"c", "l", "a", "u", "d", "e">>)
N_Claude == Html(<<"C", "l", "a", "u", "d", "e">>)
N_gpt == Html(<<"g", "p", "t">>)
N_GROK == <<"G", "R", "O", "K", ".", "H", "T", "M", "L">>
N_gemini == Html(<<"g", "e", "m", "i", "n", "i">>)
N_b == Html(<<"b">>)
N_a_b == Html(<<"a", "_", "b">>)
N_aDashB == Html(<<"a", "-", "b">>)
N_A == <<"A", ".", "H", "T", "M", "L">>

AiNameUniverse ==
    {N_claude, N_Claude, N_gpt, N_GROK, N_gemini, N_b, N_a_b, N_aDashB, N_A}

\* The sequences without repetition over S of length at most n.
DistinctSeqs(S, n) ==
    UNION { { s \in [1..k -> S] : \A i, j \in 1..k : i # j => s[i] # s[j] }
            : k \in 0..n }

NoTrips == <<>>
NoPage == [kind |-> "none"]
EmptyTree == <<>>

NoPrev == [have |-> FALSE]

BuildIdle ==
    /\ src = EmptyTree
    /\ dist = EmptyTree
    /\ trips = NoTrips
    /\ cursor = 0
    /\ written = EmptyTree
    /\ prev = NoPrev

InitSort ==
    /\ pc = "sort"
    /\ files \in DistinctSeqs(AiNameUniverse, MaxSortLen)
    /\ sorted = <<>>
    /\ resorted = <<>>
    /\ BuildIdle
    /\ tz = 0
    /\ slug = <<>>
    /\ title = <<>>
    /\ page = NoPage
    /\ ClientIdle
    /\ exitCode = 0
    /\ ServerIdle

\* const result = sortAiFiles(files)
SortCall ==
    /\ pc = "sort"
    /\ sorted' = sortAiFiles(files)
    /\ files' = ArgumentAfterSort(files)
    /\ pc' = "sorted"
    /\ UNCHANGED <<buildVars, tz, resorted, slug, title, page>>
    /\ UNCHANGED <<clientVars, exitCode, serverVars>>

\* sortAiFiles(result)
SortAgain ==
    /\ pc = "sorted"
    /\ resorted' = sortAiFiles(sorted)
    /\ sorted' = ArgumentAfterSort(sorted)
    /\ pc' = "resorted"
    /\ UNCHANGED <<buildVars, tz, files, slug, title, page>>
    /\ UNCHANGED <<clientVars, exitCode, serverVars>>

NextSort == SortCall \/ SortAgain

SpecSort == InitSort /\ [][NextSort]_vars

\* Helpers of C5: the base name, and the known-agent list as the claim gives it.
C5_Base(f) == toLowerCase(StripHtmlExt(f))
C5_Known(f) == \E i \in 1..Len(AGENT_ORDER) : AGENT_ORDER[i] = C5_Base(f)
C5_Rank(f) == CHOOSE i \in 1..Len(AGENT_ORDER) : AGENT_ORDER[i] = C5_Base(f)

C5_Ordered(s) ==
    \A i, j \in 1..Len(s) :
        i < j =>
            /\ ~(C5_Known(s[j]) /\ ~C5_Known(s[i]))
            /\ (C5_Known(s[i]) /\ C5_Known(s[j])) => C5_Rank(s[i]) <= C5_Rank(s[j])
            /\ (~C5_Known(s[i]) /\ ~C5_Known(s[j]))
                  => localeCompare(C5_Base(s[i]), C5_Base(s[j])) <= 0

C5_Permutation(s, t) ==
    /\ Len(s) = Len(t)
    /\ \A x \in Range(s) \cup Range(t) :
          Cardinality({i \in 1..Len(s) : s[i] = x})
             = Cardinality({i \in 1..Len(t) : t[i] = x})

C5_Returned ==
    /\ pc \in {"sorted", "resorted"}
          => C5_Permutation(files, sorted) /\ C5_Ordered(sorted)
    /\ pc = "resorted" => resorted = sorted

(***************************************************************************)
(* C5: sortAiFiles returns a permutation of its input in which every file  *)
(* whose lower-cased base name is a known agent precedes every             *)
(* unrecognized file, known files are in the order claude, gpt, gemini,    *)
(* grok, unrecognized files are in alphabetical (collation) order of base  *)
(* name; sorting the result again changes nothing, and the caller's array  *)
(* is left as it was.                                                      *)
(***************************************************************************)
C5_SortAiFiles ==
    /\ []C5_Returned
    /\ [][(pc \in {"sort", "sorted"}) => (files' = files)]_vars

\* A call on an array that was out of order, holding known and unknown names.
C5_Witness ==
    /\ pc = "resorted"
    /\ sorted # files
    /\ \E i, j \in 1..Len(files) : C5_Known(files[i]) /\ ~C5_Known(files[j])


(***************************************************************************)
(* The formatTripTitle specification: one call on a slug, in a time zone.  *)
(***************************************************************************)
Dashed(a, b, c) == a \o <<"-">> \o b \o <<"-">> \o c

YearParts == { <<"2","0","2","5">>, <<"2","0","2","4">>, <<"9","9">> }
MonthParts == { <<"0","1">>, <<"0","2">>, <<"0","3">>, <<"1","2">>, <<"1","3">>, <<"x">> }
DayParts == { <<"0","1">>, <<"0","5">>, <<"2","8">>, <<"3","1">> }

S_kyotoTrip == <<"k","y","o","t","o","-","t","r","i","p">>
S_kyoto == <<"k","y","o","t","o">>

TitleSlugs ==
    { Dashed(y, m, d) : y \in YearParts, m \in MonthParts, d \in DayParts }
    \cup { S_kyotoTrip, S_kyoto, <<"2","0","2","5","-","1","2">>,
           <<"B","a","l","i","_","2">> }

\* Minutes east of UTC: New York (winter), UTC, Tokyo.
TimeZones == {-300, 0, 540}

InitTitle ==
    /\ pc = "title"
    /\ slug \in TitleSlugs
    /\ tz \in TimeZones
    /\ title = <<>>
    /\ files = <<>>
    /\ sorted = <<>>
    /\ resorted = <<>>
    /\ BuildIdle
    /\ page = NoPage
    /\ ClientIdle
    /\ exitCode = 0
    /\ ServerIdle

\* title: formatTripTitle(slug)
FormatTitle ==
    /\ pc = "title"
    /\ title' = formatTripTitle(slug)
    /\ pc' = "titled"
    /\ UNCHANGED <<buildVars, sortVars, tz, slug, page>>
    /\ UNCHANGED <<clientVars, exitCode, serverVars>>

NextTitle == FormatTitle

SpecTitle == InitTitle /\ [][NextTitle]_vars

\* Helpers of C6: a slug YYYY-MM-DD naming a calendar date, and its parts.
C6_Digits(s) == \A i \in 1..Len(s) : IsDigit(s[i])
C6_Year(s) == DigitsValue(SubSeq(s, 1, 4), 0)
C6_Month(s) == DigitsValue(SubSeq(s, 6, 7), 0)
C6_Day(s) == DigitsValue(SubSeq(s, 9, 10), 0)
C6_DaysInMonth(y, m) ==
    IF m = 2 THEN (IF y % 4 = 0 /\ (y % 100 # 0 \/ y % 400 = 0) THEN 29 ELSE 28)
    ELSE IF m \in {4, 6, 9, 11} THEN 30 ELSE 31
C6_IsDateSlug(s) ==
    /\ Len(s) = 10
    /\ s[5] = "-" /\ s[8] = "-"
    /\ C6_Digits(SubSeq(s, 1, 4)) /\ C6_Digits(SubSeq(s, 6, 7))
    /\ C6_Digits(SubSeq(s, 9, 10))
    /\ C6_Month(s) \in 1..12
    /\ C6_Day(s) \in 1..C6_DaysInMonth(C6_Year(s), C6_Month(s))
C6_LongDate(s) ==
    MonthNames[C6_Month(s)] \o <<" ">> \o NumberToString(C6_Day(s))
       \o <<",", " ">> \o NumberToString(C6_Year(s))

(***************************************************************************)
(* C6: the title of a date slug YYYY-MM-DD is the long form of that date   *)
(* ("December 31, 2025"); the title of any other slug is the slug with     *)
(* its separators turned into spaces and each word capitalized             *)
(* ("kyoto-trip" gives "Kyoto Trip").                                      *)
(***************************************************************************)
C6_TitleOfSlug ==
    pc = "titled" =>
        title = IF C6_IsDateSlug(slug) THEN C6_LongDate(slug)
                ELSE WordCapitalize(slug)


(***************************************************************************)
(* The renderer specification: the two pages of a list of trips.           *)
(***************************************************************************)
MaxNameLen == 2      \* longest slug handed to the renderer

RenderAlphabet == {"a", "-", "&", "<", ">", "\"", "'"}

RenderSlugs ==
    UNION { [1..k -> RenderAlphabet] : k \in 1..MaxNameLen }

N_xAmpY == Html(<<"x", "&", "y">>)
N_itsQuote == Html(<<"i", "t", "'", "s">>)

RenderFileLists == { <<>>, <<N_claude>>, <<N_xAmpY, N_gpt>>, <<N_itsQuote>> }

\* A trip as discoverTrips builds it from a slug and the names it listed.
TripOf(s, names, overviewHtml) ==
    [slug |-> s, title |-> formatTripTitle(s), aiFiles |-> sortAiFiles(names),
     overviewHtml |-> overviewHtml]

InitRender ==
    /\ pc = "render"
    /\ tz = 0
    /\ slug \in RenderSlugs
    /\ files \in RenderFileLists
    /\ \E n \in 0..2 :
          trips = SubSeq(<< TripOf(slug, files, FALLBACK_OVERVIEW_HTML),
                            TripOf(S_kyotoTrip, <<>>, FALLBACK_OVERVIEW_HTML) >>, 1, n)
    /\ title = <<>>
    /\ sorted = <<>>
    /\ resorted = <<>>
    /\ src = EmptyTree
    /\ dist = EmptyTree
    /\ cursor = 0
    /\ written = EmptyTree
    /\ prev = NoPrev
    /\ page = NoPage
    /\ ClientIdle
    /\ exitCode = 0
    /\ ServerIdle

\* const html = renderIndexHtml(trips)
RenderIndex ==
    /\ pc = "render"
    /\ page' = renderIndexHtml(trips)
    /\ pc' = "rendered"
    /\ UNCHANGED <<src, dist, trips, cursor, written, prev, sortVars, tz,
                   slug, title>>
    /\ UNCHANGED <<clientVars, exitCode, serverVars>>

\* const html = renderTripHtml(trip)
RenderTrip ==
    /\ pc = "render"
    /\ trips # <<>>
    /\ page' = renderTripHtml(trips[1])
    /\ pc' = "rendered"
    /\ UNCHANGED <<src, dist, trips, cursor, written, prev, sortVars, tz,
                   slug, title>>
    /\ UNCHANGED <<clientVars, exitCode, serverVars>>

NextRender == RenderIndex \/ RenderTrip

SpecRender == InitRender /\ [][NextRender]_vars

\* Helpers of C10: the text s holds no reserved character of its own, i.e.
\* no < > " ' at all, and & only as the start of one of the five entities.
C10_Entities ==
    { <<"&","a","m","p",";">>, <<"&","l","t",";">>, <<"&","g","t",";">>,
      <<"&","q","u","o","t",";">>, <<"&","#","0","3","9",";">> }
C10_Escaped(s) ==
    \A i \in 1..Len(s) :
        /\ s[i] \notin {"<", ">", "\"", "'"}
        /\ s[i] = "&" =>
              \E e \in C10_Entities :
                  /\ i + Len(e) - 1 <= Len(s)
                  /\ SubSeq(s, i, i + Len(e) - 1) = e

(***************************************************************************)
(* C10: in every generated page, every title, slug, AI filename or label   *)
(* embedded in the markup, in element text and in attribute values such    *)
(* as href alike, has each of & < > " ' escaped, so that the data          *)
(* contributes no raw reserved character.                                  *)
(***************************************************************************)
C10_AllDataEscaped ==
    pc = "rendered" =>
        \A i \in 1..Len(page.holes) : C10_Escaped(page.holes[i].out)

\* What does hold: the data embedded in element text is escaped.
C10_TextEscaped ==
    pc = "rendered" =>
        \A i \in 1..Len(page.holes) :
            page.holes[i].ctx = "text" => C10_Escaped(page.holes[i].out)


(***************************************************************************)
(* The build specification: main() on a source tree, with a destination    *)
(* that holds the output of some earlier build.                            *)
(***************************************************************************)
MaxRootEntries == 2  \* most entries of the source root
MaxDirEntries == 2   \* most entries of the trip directory that varies

S_2025_01_05 == <<"2","0","2","5","-","0","1","-","0","5">>
S_2024_12_31 == <<"2","0","2","4","-","1","2","-","3","1">>
S_a == <<"a">>
S_B == <<"B">>
N_notes == <<"n","o","t","e","s",".","t","x","t">>
N_INDEX == <<"I","N","D","E","X",".","H","T","M","L">>
N_bHTML == <<"b",".","H","T","M","L">>
N_grok == Html(<<"g","r","o","k">>)
N_sub == <<"s","u","b">>

\* The entries the source root may hold: trip folders and a plain file.
RootUniverse ==
    { [name |-> S_2025_01_05, node |-> DirNode],
      [name |-> S_2024_12_31, node |-> DirNode],
      [name |-> S_a, node |-> DirNode],
      [name |-> S_B, node |-> DirNode],
      [name |-> N_notes, node |-> FileNode(Text(<<"t">>))] }

One(name, node) == (<<name>> :> node)

\* The entries a trip directory may hold, each with what lies below it.
EntryUniverse ==
    { One(INDEX_FILENAME, FileNode(Text(<<" ", "<", "p", ">", "\n">>))),
      One(INDEX_FILENAME, FileNode(Text(<<" ", "\n">>))),
      One(INDEX_FILENAME, FileNode(Text(<<>>))),
      One(INDEX_FILENAME, DirNode),
      One(N_INDEX, FileNode(Text(<<"I">>))),
      One(N_claude, FileNode(Text(<<"c">>))),
      One(N_Claude, FileNode(Text(<<"C">>))),
      One(N_bHTML, FileNode(Text(<<"b">>))),
      One(N_gpt, LinkNode(Text(<<"g">>))),
      One(OVERVIEW_FILENAME, FileNode(Text(<<"o">>))),
      One(N_notes, FileNode(Text(<<"t">>))),
      One(N_sub, DirNode)
         @@ (<<N_sub, INDEX_FILENAME>> :> FileNode(Text(<<"n">>))) }

TopName(entry) == CHOOSE n \in { q[1] : q \in DOMAIN entry } : TRUE

RECURSIVE Merge(_)
Merge(entries) ==
    IF entries = {} THEN NoFiles
    ELSE LET e == CHOOSE x \in entries : TRUE IN e @@ Merge(entries \ {e})

\* The contents a trip directory may have: at most MaxDirEntries entries.
DirContents ==
    { Merge(E) : E \in { X \in SUBSET EntryUniverse :
                           /\ Cardinality(X) <= MaxDirEntries
                           /\ \A x, y \in X : x # y => TopName(x) # TopName(y) } }

\* Every other trip directory holds one AI file.
DefaultContent == One(N_grok, FileNode(Text(<<"k">>)))

Below(name, content) ==
    [q \in { <<name>> \o r : r \in DOMAIN content } |-> content[Tail(q)]]

\* The tree with the root entries R, the directory vary holding content.
RECURSIVE TreeOf(_, _, _)
TreeOf(R, vary, content) ==
    IF R = {} THEN NoFiles
    ELSE LET e == CHOOSE x \in R : TRUE
         IN  One(e.name, e.node)
             @@ (IF e.node.kind # "dir" THEN NoFiles
                 ELSE Below(e.name, IF e.name = vary THEN content ELSE DefaultContent))
             @@ TreeOf(R \ {e}, vary, content)

RootChoices == { R \in SUBSET RootUniverse : Cardinality(R) <= MaxRootEntries }

DirNames(R) == { e.name : e \in { x \in R : x.node.kind = "dir" } }

SourceTrees ==
    { TreeOf(R, NoFiles, NoFiles) : R \in RootChoices }
    \cup UNION { { TreeOf(R, d, c) : d \in DirNames(R), c \in DirContents }
                 : R \in RootChoices }

N_stale == <<"s","t","a","l","e">>

\* What an earlier build of another source left in the destination.
StaleDist ==
    One(INDEX_FILENAME, FileNode(Text(<<"s">>)))
    @@ One(N_stale, DirNode)
    @@ (<<N_stale, OVERVIEW_FILENAME>> :> FileNode(Text(<<"s">>)))
    @@ (<<S_a, N_stale>> :> FileNode(Text(<<"s">>)))
    @@ One(S_a, DirNode)

InitBuild ==
    /\ pc = "start"
    /\ src \in SourceTrees
    /\ dist = StaleDist
    /\ trips = NoTrips
    /\ cursor = 0
    /\ written = NoFiles
    /\ prev = NoPrev
    /\ tz = 0
    /\ files = <<>>
    /\ sorted = <<>>
    /\ resorted = <<>>
    /\ slug = <<>>
    /\ title = <<>>
    /\ page = NoPage
    /\ ClientIdle
    /\ exitCode = 0
    /\ ServerIdle

restVars == <<tz, files, sorted, resorted, slug, title, page>>

SourceDirs == { n \in readdir(src, Root) : isDirectory(src, <<n>>) }

Discover_ClearsFirst ==
    /\ pc = "start"
    /\ \E rootListing \in Orderings(readdir(src, Root)) :
       \E listings \in ListingsOf(src, SourceDirs) :
          LET found == discoverTrips(src, rootListing, listings)
          IN  IF found.thrown
              THEN pc' = "failed" /\ UNCHANGED trips
              ELSE pc' = "discovered" /\ trips' = found.trips
    /\ dist' = resetDist(dist)
    /\ UNCHANGED <<src, cursor, written, prev, restVars>>
    /\ UNCHANGED <<clientVars, exitCode, serverVars>>

\* const trips = await discoverTrips()
Discover ==
    /\ pc = "start"
    /\ \E rootListing \in Orderings(readdir(src, Root)) :
       \E listings \in ListingsOf(src, SourceDirs) :
          LET found == discoverTrips(src, rootListing, listings)
          IN  IF found.thrown
              THEN pc' = "failed" /\ UNCHANGED trips
              ELSE pc' = "discovered" /\ trips' = found.trips
    /\ UNCHANGED <<src, dist, cursor, written, prev, restVars>>
    /\ UNCHANGED <<clientVars, exitCode, serverVars>>

\* await resetDist()
ResetDist ==
    /\ pc = "discovered"
    /\ dist' = resetDist(dist)
    /\ written' = NoFiles
    /\ cursor' = 0
    /\ pc' = "copy"
    /\ UNCHANGED <<src, trips, prev, restVars>>
    /\ UNCHANGED <<clientVars, exitCode, serverVars>>

\* copyTripContent: one iteration of the loop over the trips.
CopyTrip ==
    /\ pc = "copy"
    /\ cursor < Len(trips)
    /\ LET out == copyTrip(src, Output(dist, written), trips[cursor + 1])
       IN  /\ dist' = out.tree
           /\ written' = out.writes
           /\ IF out.thrown
              THEN pc' = "failed" /\ UNCHANGED cursor
              ELSE pc' = "copy" /\ cursor' = cursor + 1
    /\ UNCHANGED <<src, trips, prev, restVars>>
    /\ UNCHANGED <<clientVars, exitCode, serverVars>>

\* await writeIndexHtml(trips), once the loop is over.
WriteIndex ==
    /\ pc = "copy"
    /\ cursor = Len(trips)
    /\ LET out == writeIndexHtml(Output(dist, written), trips)
       IN  /\ dist' = out.tree
           /\ written' = out.writes
           /\ pc' = IF out.thrown THEN "failed" ELSE "bundle"
    /\ UNCHANGED <<src, trips, cursor, prev, restVars>>
    /\ UNCHANGED <<clientVars, exitCode, serverVars>>

\* await bundleClient(); main() then returns.
BundleClient ==
    /\ pc = "bundle"
    /\ LET out == bundleClient(Output(dist, written))
       IN  /\ dist' = out.tree
           /\ written' = out.writes
           /\ pc' = IF out.thrown THEN "failed" ELSE "done"
    /\ UNCHANGED <<src, trips, cursor, prev, restVars>>
    /\ UNCHANGED <<clientVars, exitCode, serverVars>>

NextBuild == Discover \/ ResetDist \/ CopyTrip \/ WriteIndex \/ BundleClient

SpecBuild == InitBuild /\ [][NextBuild]_vars

\* The build command is run again on the same source tree.
Rebuild ==
    /\ pc = "done"
    /\ prev' = [have |-> TRUE, trips |-> trips, dist |-> dist]
    /\ pc' = "start"
    /\ trips' = NoTrips
    /\ cursor' = 0
    /\ written' = NoFiles
    /\ UNCHANGED <<src, dist, restVars>>
    /\ UNCHANGED <<clientVars, exitCode, serverVars>>

NextRebuild == NextBuild \/ Rebuild

SpecRebuild == InitBuild /\ [][NextRebuild]_vars


\* discoverTrips has returned in this build.
Discovered == pc \in {"discovered", "copy", "bundle", "done"}

TripSlugs == { trips[i].slug : i \in 1..Len(trips) }

\* Helpers of the claims on discovery: the index.html of trip folder d, when
\* it is a regular file, and whether a text has a non-whitespace character.
IndexPath(d) == <<d, INDEX_FILENAME>>
HasIndexFile(d) == IndexPath(d) \in DOMAIN src /\ src[IndexPath(d)].kind = "file"
IndexText(d) == src[IndexPath(d)].content.text
HasInk(text) == \E i \in 1..Len(text) : text[i] \notin {" ", "\n"}

(***************************************************************************)
(* C1 as stated: discoverTrips returns one Trip per subdirectory of the    *)
(* source root (plain files are ignored), in descending lexicographic      *)
(* order by slug: a.slug > b.slug for every adjacent pair (a, b).          *)
(***************************************************************************)
C1_DescendingCodeUnits ==
    Discovered =>
        /\ Len(trips) = Cardinality(SourceDirs)
        /\ TripSlugs = SourceDirs
        /\ \A i \in 1..(Len(trips) - 1) :
              CodeUnitCompare(trips[i].slug, trips[i + 1].slug) > 0

(***************************************************************************)
(* C1 as amended: discoverTrips returns one Trip per subdirectory of the   *)
(* source root (plain files are ignored), in descending order of           *)
(* localeCompare, the collation order of the locale: for every adjacent    *)
(* pair (a, b), a.slug.localeCompare(b.slug) >= 0.                         *)
(***************************************************************************)
C1_DescendingCollation ==
    Discovered =>
        /\ Len(trips) = Cardinality(SourceDirs)
        /\ TripSlugs = SourceDirs
        /\ \A i \in 1..(Len(trips) - 1) :
              localeCompare(trips[i].slug, trips[i + 1].slug) >= 0

\* Two trips that collation and code units order differently.
C1_Witness ==
    /\ pc = "discovered"
    /\ Len(trips) = 2
    /\ CodeUnitCompare(trips[1].slug, trips[2].slug) < 0

(***************************************************************************)
(* C2: when the index.html of a trip directory exists and has a            *)
(* non-whitespace character, the Trip's overviewHtml is the file's         *)
(* contents exactly, leading and trailing white space included.            *)
(***************************************************************************)
C2_OverviewIsIndex ==
    Discovered =>
        \A i \in 1..Len(trips) :
            (HasIndexFile(trips[i].slug) /\ HasInk(IndexText(trips[i].slug)))
               => trips[i].overviewHtml = IndexText(trips[i].slug)

\* A trip whose index.html has white space around its text.
C2_Witness ==
    /\ Discovered
    /\ \E i \in 1..Len(trips) :
          /\ HasIndexFile(trips[i].slug)
          /\ HasInk(IndexText(trips[i].slug))
          /\ IndexText(trips[i].slug)[1] = " "

(***************************************************************************)
(* C3: when the index.html of a trip directory is missing, empty or        *)
(* whitespace-only, the Trip's overviewHtml is FALLBACK_OVERVIEW_HTML      *)
(* exactly and discovery does not fail for it: it fails only on an         *)
(* index.html that cannot be read as a file.  Every Trip has a non-empty   *)
(* overviewHtml.                                                           *)
(***************************************************************************)
C3_FallbackOverview ==
    /\ Discovered =>
          \A i \in 1..Len(trips) :
              /\ (\/ IndexPath(trips[i].slug) \notin DOMAIN src
                  \/ (HasIndexFile(trips[i].slug) /\ ~HasInk(IndexText(trips[i].slug))))
                    => trips[i].overviewHtml = FALLBACK_OVERVIEW_HTML
              /\ trips[i].overviewHtml # <<>>
    /\ pc = "failed" =>
          \E d \in SourceDirs : IndexPath(d) \in DOMAIN src /\ ~HasIndexFile(d)

\* A trip without index.html beside a trip whose index.html is white space.
C3_Witness ==
    /\ Discovered
    /\ \E i, j \in 1..Len(trips) :
          /\ IndexPath(trips[i].slug) \notin DOMAIN src
          /\ HasIndexFile(trips[j].slug)
          /\ IndexText(trips[j].slug) # <<>>
          /\ ~HasInk(IndexText(trips[j].slug))

\* Helper of C4: the names of the directory of trip folder d that end in
\* .html whatever their case and are neither reserved name in any case.
C4_AiNames(d) ==
    { n \in readdir(src, <<d>>) :
         /\ Len(n) >= 5
         /\ toLowerCase(SubSeq(n, Len(n) - 4, Len(n))) = <<".", "h", "t", "m", "l">>
         /\ toLowerCase(n) \notin
               { <<"i","n","d","e","x",".","h","t","m","l">>,
                 <<"o","v","e","r","v","i","e","w",".","h","t","m","l">> } }

(***************************************************************************)
(* C4: the aiFiles of a Trip are names of its directory that end in .html  *)
(* (in any case), never index.html or overview.html (in any case), and     *)
(* every other .html name of the directory is in aiFiles exactly once.     *)
(***************************************************************************)
C4_AiFiles ==
    Discovered =>
        \A i \in 1..Len(trips) :
            /\ Range(trips[i].aiFiles) = C4_AiNames(trips[i].slug)
            /\ Len(trips[i].aiFiles) = Cardinality(C4_AiNames(trips[i].slug))

\* A directory with INDEX.HTML, or overview.html, beside an AI file.
C4_Witness ==
    /\ Discovered
    /\ \E i \in 1..Len(trips) :
          /\ readdir(src, <<trips[i].slug>>) \cap {N_INDEX, OVERVIEW_FILENAME} # {}
          /\ trips[i].aiFiles # <<>>

\* Helper of C7: the regular files of the source directory of trip folder d,
\* but for its index.html and for the overview.html that part (2) replaces.
C7_SourceFiles(d) ==
    { q \in DOMAIN src :
         /\ Len(q) >= 2
         /\ q[1] = d
         /\ src[q].kind = "file"
         /\ q # IndexPath(d)
         /\ q # <<d, OVERVIEW_FILENAME>> }

(***************************************************************************)
(* C7: after a successful build the destination directory of every Trip    *)
(* holds (1) every file of the source trip directory but index.html, at    *)
(* the same relative path with the same content, (2) overview.html with    *)
(* the Trip's overviewHtml, and (3) a synthesized index.html hub page.     *)
(***************************************************************************)
C7_TripDestination ==
    pc = "done" =>
        \A i \in 1..Len(trips) :
            LET d == trips[i].slug
            IN  /\ \A q \in C7_SourceFiles(d) :
                      q \in DOMAIN dist /\ dist[q] = src[q]
                /\ <<d, OVERVIEW_FILENAME>> \in DOMAIN dist
                /\ dist[<<d, OVERVIEW_FILENAME>>] = FileNode(Text(trips[i].overviewHtml))
                /\ IndexPath(d) \in DOMAIN dist
                /\ dist[IndexPath(d)] = FileNode(renderTripHtml(trips[i]))

\* What does hold of the destination: parts (2) and (3), and part (1) for
\* the files that are not named index.html in any case, at any depth.
C7_TripDestinationCopied ==
    pc = "done" =>
        \A i \in 1..Len(trips) :
            LET d == trips[i].slug
            IN  /\ \A q \in C7_SourceFiles(d) :
                      (toLowerCase(BaseName(q)) # INDEX_FILENAME)
                         => q \in DOMAIN dist /\ dist[q] = src[q]
                /\ dist[<<d, OVERVIEW_FILENAME>>] = FileNode(Text(trips[i].overviewHtml))
                /\ dist[IndexPath(d)] = FileNode(renderTripHtml(trips[i]))

(***************************************************************************)
(* C8: the destination is cleared at the start of every build: after a     *)
(* successful build it holds nothing of its prior content, only what this  *)
(* build wrote: the top-level index.html, one directory per trip, assets.  *)
(***************************************************************************)
C8_NothingLeftOver ==
    pc = "done" =>
        /\ \A q \in DOMAIN dist : q \in DOMAIN written
        /\ readdir(dist, Root) = TripSlugs \cup {INDEX_FILENAME, N_assets}

\* A build over a destination whose stale files lay in a current trip folder.
C8_Witness ==
    /\ pc = "done"
    /\ S_a \in TripSlugs
    /\ <<S_a, N_stale>> \notin DOMAIN dist
    /\ <<N_stale>> \notin DOMAIN dist

(***************************************************************************)
(* C9: rebuilding from an unchanged source tree gives identical output:    *)
(* the list of Trips, the order of each Trip's aiFiles and every page are  *)
(* the same whatever order the directory listings come in.                 *)
(***************************************************************************)
C9_RebuildIdentical ==
    (pc = "done" /\ prev.have) => (trips = prev.trips /\ dist = prev.dist)

\* What does hold: a rebuild differs at most in the order of AI files whose
\* lower-cased base names are equal.
C9_RebuildSameUpToTies ==
    (pc = "done" /\ prev.have) =>
        /\ Len(trips) = Len(prev.trips)
        /\ \A i \in 1..Len(trips) :
              /\ trips[i].slug = prev.trips[i].slug
              /\ trips[i].title = prev.trips[i].title
              /\ trips[i].overviewHtml = prev.trips[i].overviewHtml
              /\ Range(trips[i].aiFiles) = Range(prev.trips[i].aiFiles)
              /\ [k \in 1..Len(trips[i].aiFiles) |-> C5_Base(trips[i].aiFiles[k])]
                    = [k \in 1..Len(prev.trips[i].aiFiles) |->
                          C5_Base(prev.trips[i].aiFiles[k])]


(***************************************************************************)
(* The client side: the trip-data script element as the browser reads it   *)
(* and parseJsonScript (src/web/shared.ts).                                *)
(***************************************************************************)
MaxJsonLen == 3      \* longest string of the exhaustive JSON payloads

ScriptEndTag == <<"<", "/", "s", "c", "r", "i", "p", "t">>

LowerSafe(c) == IF c \in Chars THEN LowerOf[c] ELSE c

\* The first position at which the end tag of a script element begins in
\* s, or Len(s) + 1.
ScriptEnd(s) ==
    LET ends == { i \in 1..(Len(s) - Len(ScriptEndTag) + 1) :
                     \A k \in 1..Len(ScriptEndTag) :
                         LowerSafe(s[i + k - 1]) = ScriptEndTag[k] }
    IN  IF ends = {} THEN Len(s) + 1
        ELSE CHOOSE i \in ends : \A j \in ends : i <= j

\* script.textContent of <script type="application/json">s</script>: the
\* HTML parser ends the element at the first end tag in s.
textContent(s) == SubSeq(s, 1, ScriptEnd(s) - 1)

\* Whether JavaScript takes the value for true in a condition.
Truthy(v) ==
    CASE IsStr(v) -> v.str # <<>>
      [] DOMAIN v = {"num"} -> v.num # 0
      [] DOMAIN v = {"lit"} -> v.lit = <<"t", "r", "u", "e">>
      [] OTHER -> TRUE

parseJsonScript_Default(script) ==
    LET none == Obj(<<K_slug, K_title, K_aiFiles, K_overviewPath>>,
                    <<Str(<<>>), Str(<<>>), Arr(<<>>), Str(<<>>)>>)
    IN  IF ~script.present THEN none
        ELSE LET text == trim(textContent(script.text))
             IN  IF text = <<>> THEN none
                 ELSE IF JSONparse(text).ok THEN JSONparse(text).v ELSE none

\* parseJsonScript("trip-data"): null when the element is absent, its text
\* is empty or JSON.parse throws.
parseJsonScript(script) ==
    IF ~script.present THEN JsonNull
    ELSE LET text == trim(textContent(script.text))
         IN  IF text = <<>> THEN JsonNull
             ELSE IF JSONparse(text).ok THEN JSONparse(text).v ELSE JsonNull

(***************************************************************************)
(* The serialization specification: a value is serialized into the         *)
(* trip-data element of a page and read back by parseJsonScript.           *)
(***************************************************************************)
JsonAlphabet == {"a", "<", "\"", "\\", "/"}

JsonStrings ==
    UNION { [1..k -> JsonAlphabet] : k \in 0..MaxJsonLen }

S_scriptEnd == <<"<", "/", "s", "c", "r", "i", "p", "t", ">">>
S_SCRIPTEnd == <<"<", "/", "S", "C", "R", "I", "P", "T", ">">>
S_escaped == <<"\\", "u", "0", "0", "3", "c">>
S_newline == <<"a", "\n", " ">>

JsonPayloads ==
    { Str(s) : s \in JsonStrings \cup {S_scriptEnd, S_SCRIPTEnd, S_escaped, S_newline} }
    \cup { StringArray(<<s, S_scriptEnd>>) : s \in {<<>>, <<"<">>, <<"\"">>} }
    \cup { ManifestJson(<<[slug |-> s, title |-> S_scriptEnd, aiFiles |-> names]>>) :
              s \in {<<"a">>, <<"<">>}, names \in {<<>>, <<Html(<<"<", "a">>)>>} }
    \cup { Arr(<<>>), Obj(<<>>, <<>>), ManifestJson(<<>>) }

PageOf(script) == [kind |-> "data", script |-> script]

InitJson ==
    /\ pc = "json"
    /\ payload \in JsonPayloads
    /\ doc = NoDoc
    /\ parsed = JsonNull
    /\ exitCode = 0
    /\ ServerIdle
    /\ BuildIdle
    /\ tz = 0
    /\ files = <<>>
    /\ sorted = <<>>
    /\ resorted = <<>>
    /\ slug = <<>>
    /\ title = <<>>
    /\ page = NoPage

\* <script id="trip-data" type="application/json">${serializeJson(value)}</script>
Serialize ==
    /\ pc = "json"
    /\ doc' = PageOf(Data(payload))
    /\ pc' = "embedded"
    /\ UNCHANGED <<buildVars, sortVars, tz, slug, title, page, payload, parsed, exitCode, serverVars>>

\* parseJsonScript("trip-data") in the page
ParseScript ==
    /\ pc = "embedded"
    /\ parsed' = parseJsonScript(doc.script)
    /\ pc' = "parsed"
    /\ UNCHANGED <<buildVars, sortVars, tz, slug, title, page, payload, doc, exitCode, serverVars>>

NextJson == Serialize \/ ParseScript

SpecJson == InitJson /\ [][NextJson]_vars

(***************************************************************************)
(* C11: the text serializeJson produces and the page embeds in the         *)
(* trip-data element holds no "<" character, and parsing the element's     *)
(* text as JSON gives back the value that was serialized.                  *)
(***************************************************************************)
C11_SerializeRoundTrip ==
    /\ pc \in {"embedded", "parsed"} => "<" \notin Range(doc.script.text)
    /\ pc = "parsed" => parsed = payload

\* A string with "<" and a backslash in it has been serialized and parsed.
C11_Witness ==
    /\ pc = "parsed"
    /\ IsStr(payload)
    /\ {"<", "\\"} \subseteq Range(payload.str)


(***************************************************************************)
(* C12: renderIndexHtml of an empty list is the fixed "No trips found"     *)
(* page, with no manifest block and no client script; of a non-empty list  *)
(* it is the manifest-driven layout with one server-rendered fallback      *)
(* entry per trip, in the order of the trips.                              *)
(***************************************************************************)
C12_IndexPage ==
    (pc = "rendered" /\ page.kind # "hub") =>
        IF trips = <<>>
        THEN /\ page.kind = "noTrips"
             /\ ~page.data.present
             /\ page.script = <<>>
             /\ page.holes = <<>>
        ELSE /\ page.kind = "explorer"
             /\ page.data.present
             /\ page.script = APP_SCRIPT
             /\ Len(page.holes) = 4 * Len(trips)
             /\ \A i \in 1..Len(trips) :
                   /\ page.holes[4 * i - 3].out = escapeHtml(trips[i].title)
                   /\ page.holes[4 * i - 2].out = escapeHtml(trips[i].slug)
                   /\ page.holes[4 * i - 1].out = encodeURI(trips[i].slug)
                   /\ page.holes[4 * i].out = encodeURI(trips[i].slug)

\* The top-level page of no trip has been rendered.
C12_Witness == pc = "rendered" /\ trips = <<>> /\ page.kind = "noTrips"

\* Helpers of C13: the pages of the destination, the value in the trip-data
\* element of a page, and the manifest entry of a trip.
C13_TopPage == dist[<<INDEX_FILENAME>>].content
C13_TripPage(d) == dist[<<d, INDEX_FILENAME>>].content
C13_Entry(trip) ==
    [keys |-> << <<"s","l","u","g">>, <<"t","i","t","l","e">>,
                 <<"a","i","F","i","l","e","s">> >>,
     vals |-> << [str |-> trip.slug], [str |-> trip.title],
                 [arr |-> [k \in 1..Len(trip.aiFiles) |-> [str |-> trip.aiFiles[k]]]] >>]
C13_TripPagesOk ==
    \A i \in 1..Len(trips) :
        LET own == parseJsonScript(C13_TripPage(trips[i].slug).data)
            top == parseJsonScript(C13_TopPage.data)
        IN  /\ C13_TripPage(trips[i].slug).data.present
            /\ own.keys = Append(C13_Entry(trips[i]).keys,
                                 <<"o","v","e","r","v","i","e","w","P","a","t","h">>)
            /\ SubSeq(own.vals, 1, 3) = top.arr[i].vals
            /\ own.vals[4] = [str |-> <<".", "/">> \o OVERVIEW_FILENAME]
            /\ <<trips[i].slug, OVERVIEW_FILENAME>> \in DOMAIN dist
            /\ dist[<<trips[i].slug, OVERVIEW_FILENAME>>].kind = "file"

(***************************************************************************)
(* C13 as stated: every generated page embeds one trip-data block: the     *)
(* top-level page the array of {slug, title, aiFiles}, one entry per Trip  *)
(* in discovery order and without overviewHtml; each trip page one         *)
(* {slug, title, aiFiles, overviewPath} whose first three fields equal     *)
(* the trip's entry in the top-level manifest and whose overviewPath       *)
(* names the overview.html written next to it.                             *)
(***************************************************************************)
C13_EveryPageHasData ==
    pc = "done" =>
        /\ C13_TopPage.data.present
        /\ parseJsonScript(C13_TopPage.data)
              = [arr |-> [i \in 1..Len(trips) |-> C13_Entry(trips[i])]]
        /\ C13_TripPagesOk

(***************************************************************************)
(* C13 as amended: the same of every generated page but the top-level      *)
(* page of a build that discovered no trip, which is the "No trips found"  *)
(* page and embeds no trip-data block.                                     *)
(***************************************************************************)
C13_PagesWithTripsHaveData ==
    pc = "done" =>
        IF trips = <<>>
        THEN ~C13_TopPage.data.present
        ELSE /\ C13_TopPage.data.present
             /\ parseJsonScript(C13_TopPage.data)
                   = [arr |-> [i \in 1..Len(trips) |-> C13_Entry(trips[i])]]
             /\ C13_TripPagesOk

\* A build of two trips, one of them with AI files, is done.
C13_Witness ==
    /\ pc = "done"
    /\ Len(trips) = 2
    /\ \E i \in 1..2 : trips[i].aiFiles # <<>>


(***************************************************************************)
(* The build under input and output errors: main() and the handler of its  *)
(* rejection, every step of main() either returning or throwing.           *)
(***************************************************************************)
N_overviewDir == One(OVERVIEW_FILENAME, DirNode)

\* Source trees of at most two trip folders, the folder a holding one entry.
FaultRoots ==
    { {}, {[name |-> S_a, node |-> DirNode]},
      {[name |-> S_a, node |-> DirNode], [name |-> S_B, node |-> DirNode]},
      {[name |-> S_a, node |-> DirNode], [name |-> N_notes, node |-> FileNode(Text(<<"t">>))]} }

FaultTrees ==
    { TreeOf(R, S_a, c) : R \in FaultRoots,
                          c \in EntryUniverse \cup {NoFiles, N_overviewDir} }

InitFaulty ==
    /\ pc = "start"
    /\ src \in FaultTrees
    /\ dist = StaleDist
    /\ trips = NoTrips
    /\ cursor = 0
    /\ written = NoFiles
    /\ prev = NoPrev
    /\ tz = 0
    /\ files = <<>>
    /\ sorted = <<>>
    /\ resorted = <<>>
    /\ slug = <<>>
    /\ title = <<>>
    /\ page = NoPage
    /\ ClientIdle
    /\ exitCode = 0
    /\ ServerIdle

\* discoverTrips() rejects: the source root or a trip folder cannot be read.
DiscoverThrows ==
    /\ pc = "start"
    /\ pc' = "failed"
    /\ UNCHANGED <<buildVars, restVars, clientVars, exitCode, serverVars>>

\* resetDist() rejects: fs.rm or fs.mkdir fails.
ResetDistThrows ==
    /\ pc = "discovered"
    /\ pc' = "failed"
    /\ UNCHANGED <<buildVars, restVars, clientVars, exitCode, serverVars>>

\* copyTripContent() rejects in an iteration of its loop: the directory has
\* been copied and the write of the overview file fails.
CopyTripThrows ==
    /\ pc = "copy"
    /\ cursor < Len(trips)
    /\ LET out == copyDirectory(src, <<trips[cursor + 1].slug>>,
                                <<trips[cursor + 1].slug>>, Output(dist, written))
       IN  /\ dist' = out.tree
           /\ written' = out.writes
    /\ pc' = "failed"
    /\ UNCHANGED <<src, trips, cursor, prev, restVars, clientVars, exitCode, serverVars>>

\* writeIndexHtml() rejects: fs.writeFile fails.
WriteIndexThrows ==
    /\ pc = "copy"
    /\ cursor = Len(trips)
    /\ pc' = "failed"
    /\ UNCHANGED <<buildVars, restVars, clientVars, exitCode, serverVars>>

\* bundleClient() rejects: the assets directory is made and esbuild fails.
BundleClientThrows ==
    /\ pc = "bundle"
    /\ LET out == mkdir(Output(dist, written), <<N_assets>>)
       IN  /\ dist' = out.tree
           /\ written' = out.writes
    /\ pc' = "failed"
    /\ UNCHANGED <<src, trips, cursor, prev, restVars, clientVars, exitCode, serverVars>>

CatchHandler_ExitZero ==
    /\ pc = "failed"
    /\ pc' = "exited"
    /\ UNCHANGED <<buildVars, restVars, clientVars, exitCode, serverVars>>

\* main().catch(...): process.exitCode = 1, and the process ends.
CatchHandler ==
    /\ pc = "failed"
    /\ exitCode' = 1
    /\ pc' = "exited"
    /\ UNCHANGED <<buildVars, restVars, clientVars, serverVars>>

\* main() has resolved: the process ends with the exit code left unset.
Exit ==
    /\ pc = "done"
    /\ pc' = "exited"
    /\ UNCHANGED <<buildVars, restVars, clientVars, exitCode, serverVars>>

NextFaulty ==
    \/ NextBuild
    \/ DiscoverThrows \/ ResetDistThrows \/ CopyTripThrows
    \/ WriteIndexThrows \/ BundleClientThrows
    \/ CatchHandler \/ Exit

SpecFaulty == InitFaulty /\ [][NextFaulty]_vars

\* Helpers of C14: the order of the steps, as the positions main() goes
\* through, and what a step leaves of the destination written so far.
C14_StepOrder ==
    { <<"start", "discovered">>, <<"discovered", "copy">>, <<"copy", "copy">>,
      <<"copy", "bundle">>, <<"bundle", "done">>, <<"done", "exited">>,
      <<"start", "failed">>, <<"discovered", "failed">>, <<"copy", "failed">>,
      <<"bundle", "failed">>, <<"failed", "exited">> }
C14_InSequence ==
    /\ <<pc, pc'>> \in C14_StepOrder
    /\ trips' # trips => pc = "start"
    /\ (pc = "copy" /\ pc' = "bundle") => cursor = Len(trips)
    /\ (pc = "copy" /\ pc' = "copy") => cursor' = cursor + 1
C14_Aborts ==
    /\ pc = "failed" =>
          /\ pc' = "exited"
          /\ exitCode' # 0
          /\ dist' = dist /\ written' = written /\ trips' = trips
    /\ pc' = "failed" =>
          \A q \in DOMAIN written : q \in DOMAIN dist' /\ dist'[q] = dist[q]
    /\ pc = "done" => (pc' = "exited" /\ exitCode' = 0 /\ dist' = dist)
    /\ pc' = "exited" => pc \in {"failed", "done"}

(***************************************************************************)
(* C14: the build runs its steps in sequence (discover, reset the          *)
(* destination, copy and render each trip, write the top-level index,      *)
(* bundle the scripts); when a step fails no later step is executed, what  *)
(* was written so far stays, and the process ends with a non-zero exit     *)
(* code; when no step fails the exit code is zero.                         *)
(***************************************************************************)
C14_AbortOnFirstError == [][C14_InSequence /\ C14_Aborts]_vars

\* A build that failed after it had written into the destination has ended.
C14_Witness ==
    /\ pc = "exited"
    /\ exitCode = 1
    /\ DOMAIN written # {}
    /\ <<INDEX_FILENAME>> \notin DOMAIN dist


(***************************************************************************)
(* The trip hub page in the browser (src/web/trip.ts).  The document is    *)
(* the page renderTripHtml wrote: its trip-data element, the overview      *)
(* frame and status, the AI tabs, frame and status and the container of    *)
(* the direct links.  A status text is the message and the label in it.    *)
(***************************************************************************)
MaxTabs == 2         \* most AI files of the trip of a hub page

NoSrc == [set |-> FALSE]
Src(url) == [set |-> TRUE, url |-> url]
NoHandler == [installed |-> FALSE]
Handler(text) == [installed |-> TRUE, text |-> text]
StatusText(message, label) == [message |-> message, label |-> label]
Element(text) == [present |-> TRUE, text |-> text]
Frame(source) == [present |-> TRUE, src |-> source, onload |-> NoHandler, onerror |-> NoHandler]
Missing == [present |-> FALSE]

formatAiLabel(filename) == WordCapitalize(StripHtmlExt(filename))

\* encodeURIComponent on one character: letters, digits and - _ . ! ~ * '
\* ( ) are kept, every other character becomes %XX.
EncodeURIComponentChar(c) ==
    CASE c = "\n" -> <<"%","0","A">>
      [] c = " "  -> <<"%","2","0">>
      [] c = "\"" -> <<"%","2","2">>
      [] c = "#"  -> <<"%","2","3">>
      [] c = "%"  -> <<"%","2","5">>
      [] c = "&"  -> <<"%","2","6">>
      [] c = ","  -> <<"%","2","C">>
      [] c = "/"  -> <<"%","2","F">>
      [] c = ";"  -> <<"%","3","B">>
      [] c = "<"  -> <<"%","3","C">>
      [] c = ">"  -> <<"%","3","E">>
      [] c = "\\" -> <<"%","5","C">>
      [] OTHER    -> <<c>>

RECURSIVE encodeURIComponent(_)
encodeURIComponent(s) ==
    IF s = <<>> THEN <<>>
    ELSE EncodeURIComponentChar(Head(s)) \o encodeURIComponent(Tail(s))

\* The document of a trip page: the template of scripts/build.ts has the
\* overview frame, with its source already in the markup, and the overview
\* status; the older template has neither.
HubDocument(tripPage, hasOverview, script) ==
    [kind |-> "hub",
     script |-> script,
     overviewFrame |-> IF hasOverview THEN Frame(Src(DotSlash \o OVERVIEW_FILENAME))
                       ELSE Missing,
     overviewStatus |-> IF hasOverview THEN Element(StatusText("server", <<>>))
                        ELSE Missing,
     aiStatus |-> Element(StatusText("server", <<>>)),
     aiTabs |-> [present |-> TRUE, disabled |-> FALSE, buttons |-> <<>>],
     aiFrame |-> Frame(NoSrc),
     fallback |-> [present |-> TRUE, highlighted |-> FALSE,
                   links |-> SubSeq(tripPage.holes, 4, Len(tripPage.holes))],
     event |-> "none",      \* the event dispatched last
     clicked |-> 0]         \* the position of the tab clicked last

\* setTextContent(target, value)
setTextContent(target, status) ==
    IF target.present THEN [target EXCEPT !.text = status] ELSE target

\* The fields of the data of a trip page.
DataString(data, key) == Get(data, key).str
DataFiles(data) ==
    IF HasKey(data, K_aiFiles) /\ IsArr(Get(data, K_aiFiles))
    THEN [i \in 1..Len(Get(data, K_aiFiles).arr) |-> Get(data, K_aiFiles).arr[i].str]
    ELSE <<>>

hydrateOverview_Swapped(d, data) ==
    IF ~d.overviewFrame.present THEN d
    ELSE [d EXCEPT
            !.overviewStatus = setTextContent(@, StatusText("Loading overview", <<>>)),
            !.overviewFrame =
                [@ EXCEPT !.src = Src(DataString(data, K_overviewPath)),
                          !.onload = Handler(StatusText("Failed to load overview", <<>>)),
                          !.onerror = Handler(StatusText("Overview loaded", <<>>))]]

hydrateOverview(d, data) ==
    IF ~d.overviewFrame.present THEN d
    ELSE [d EXCEPT
            !.overviewStatus = setTextContent(@, StatusText("Loading overview", <<>>)),
            !.overviewFrame =
                [@ EXCEPT !.src = Src(DataString(data, K_overviewPath)),
                          !.onload = Handler(StatusText("Overview loaded", <<>>)),
                          !.onerror = Handler(StatusText("Failed to load overview", <<>>))]]

setTabsDisabled_Inverted(container, disabled) == [container EXCEPT !.disabled = ~disabled]

\* container.classList.toggle("opacity-60", disabled)
setTabsDisabled(container, disabled) == [container EXCEPT !.disabled = disabled]

loadAiFrame(d, file) ==
    [d EXCEPT
       !.aiStatus = setTextContent(@, StatusText("Loading", formatAiLabel(file))),
       !.aiFrame =
           [@ EXCEPT !.src = Src(DotSlash \o encodeURIComponent(file)),
                     !.onload = Handler(StatusText("ready", formatAiLabel(file))),
                     !.onerror = Handler(StatusText("Failed to load", formatAiLabel(file)))]]

\* The button of one AI file; the first is made active.
TabButton(file, index) ==
    [file |-> file, label |-> formatAiLabel(file), active |-> (index = 1)]

hydrateAiTabs_FirstTabIdle(d, data) ==
    LET aiFiles == DataFiles(data)
        cleared == [d EXCEPT !.aiTabs.buttons = <<>>]
    IN  IF ~d.aiTabs.present \/ ~d.aiFrame.present THEN d
        ELSE IF aiFiles = <<>>
        THEN [cleared EXCEPT
                !.aiFrame.src = NoSrc,
                !.aiStatus = setTextContent(@, StatusText("No AI suggestions available.", <<>>)),
                !.aiTabs = setTabsDisabled(@, TRUE),
                !.fallback = IF @.present THEN [@ EXCEPT !.highlighted = TRUE] ELSE @]
        ELSE [cleared EXCEPT
                !.aiTabs = [setTabsDisabled(@, FALSE) EXCEPT
                               !.buttons = [i \in 1..Len(aiFiles) |->
                                              [TabButton(aiFiles[i], i) EXCEPT !.active = FALSE]]]]

hydrateAiTabs(d, data) ==
    LET aiFiles == DataFiles(data)
        cleared == [d EXCEPT !.aiTabs.buttons = <<>>]
    IN  IF ~d.aiTabs.present \/ ~d.aiFrame.present THEN d
        ELSE IF aiFiles = <<>>
        THEN [cleared EXCEPT
                !.aiFrame.src = NoSrc,
                !.aiStatus = setTextContent(@, StatusText("No AI suggestions available.", <<>>)),
                !.aiTabs = setTabsDisabled(@, TRUE),
                !.fallback = IF @.present THEN [@ EXCEPT !.highlighted = TRUE] ELSE @]
        ELSE loadAiFrame(
                [cleared EXCEPT
                    !.aiTabs = [setTabsDisabled(@, FALSE) EXCEPT
                                   !.buttons = [i \in 1..Len(aiFiles) |->
                                                  TabButton(aiFiles[i], i)]]],
                aiFiles[1])

\* The click listener of the button at position index.
clickTab(d, index) ==
    loadAiFrame(
        [d EXCEPT !.aiTabs.buttons =
            [i \in 1..Len(@) |-> [@[i] EXCEPT !.active = (i = index)]]],
        d.aiTabs.buttons[index].file)

\* The listener of DOMContentLoaded.
onDOMContentLoaded(d) ==
    LET data == parseJsonScript(d.script)
    IN  IF ~Truthy(data) THEN d
        ELSE hydrateAiTabs(hydrateOverview(d, data), data)


(***************************************************************************)
(* The trip hub specification: a trip page is opened, its script runs on   *)
(* DOMContentLoaded, tabs are clicked and the frames load or fail.         *)
(***************************************************************************)
HubFileNames == <<N_claude, N_xAmpY, N_a_b, N_gpt>>

HubTrips ==
    { TripOf(S_kyotoTrip, SubSeq(HubFileNames, 1, n), FALLBACK_OVERVIEW_HTML) :
         n \in 0..MaxTabs }

\* What the trip-data element may hold instead of the rendered data.
BrokenScripts(rendered) ==
    { NoData,
      [present |-> TRUE, text |-> <<>>],
      [present |-> TRUE, text |-> <<" ", "\n">>],
      [present |-> TRUE, text |-> <<"{">>],
      [present |-> TRUE, text |-> SubSeq(rendered.text, 1, Len(rendered.text) - 1)] }

InitHub ==
    /\ pc = "page"
    /\ tz = 0
    /\ \E trip \in HubTrips :
          /\ trips = <<trip>>
          /\ page = renderTripHtml(trip)
    /\ \E hasOverview \in BOOLEAN :
       \E script \in {page.data} \cup BrokenScripts(page.data) :
          doc = HubDocument(page, hasOverview, script)
    /\ parsed = JsonNull
    /\ payload = JsonNull
    /\ exitCode = 0
    /\ ServerIdle
    /\ src = EmptyTree
    /\ dist = EmptyTree
    /\ cursor = 0
    /\ written = EmptyTree
    /\ prev = NoPrev
    /\ files = <<>>
    /\ sorted = <<>>
    /\ resorted = <<>>
    /\ slug = <<>>
    /\ title = <<>>

hubRest == <<buildVars, sortVars, tz, slug, title, page, payload, exitCode, serverVars>>

\* document.addEventListener("DOMContentLoaded", ...)
DOMContentLoaded ==
    /\ pc = "page"
    /\ parsed' = parseJsonScript(doc.script)
    /\ doc' = [onDOMContentLoaded(doc) EXCEPT !.event = "DOMContentLoaded"]
    /\ pc' = "loaded"
    /\ UNCHANGED hubRest

\* button.addEventListener("click", ...), on the button at position index.
TabClick(index) ==
    /\ index \in 1..Len(doc.aiTabs.buttons)
    /\ doc' = [clickTab(doc, index) EXCEPT !.event = "click", !.clicked = index]
    /\ UNCHANGED <<pc, parsed, hubRest>>

\* The load event of the overview frame.
OverviewFrameLoad ==
    /\ doc.overviewFrame.present
    /\ doc' = [(IF doc.overviewFrame.onload.installed
                THEN [doc EXCEPT !.overviewStatus =
                         setTextContent(@, doc.overviewFrame.onload.text)]
                ELSE doc) EXCEPT !.event = "overview.load"]
    /\ UNCHANGED <<pc, parsed, hubRest>>

\* The error event of the overview frame.
OverviewFrameError ==
    /\ doc.overviewFrame.present
    /\ doc' = [(IF doc.overviewFrame.onerror.installed
                THEN [doc EXCEPT !.overviewStatus =
                         setTextContent(@, doc.overviewFrame.onerror.text)]
                ELSE doc) EXCEPT !.event = "overview.error"]
    /\ UNCHANGED <<pc, parsed, hubRest>>

\* The load event of the AI frame.
AiFrameLoad ==
    /\ doc.aiFrame.present
    /\ doc' = [(IF doc.aiFrame.onload.installed
                THEN [doc EXCEPT !.aiStatus = setTextContent(@, doc.aiFrame.onload.text)]
                ELSE doc) EXCEPT !.event = "ai.load"]
    /\ UNCHANGED <<pc, parsed, hubRest>>

\* The error event of the AI frame.
AiFrameError ==
    /\ doc.aiFrame.present
    /\ doc' = [(IF doc.aiFrame.onerror.installed
                THEN [doc EXCEPT !.aiStatus = setTextContent(@, doc.aiFrame.onerror.text)]
                ELSE doc) EXCEPT !.event = "ai.error"]
    /\ UNCHANGED <<pc, parsed, hubRest>>

NextHub ==
    \/ DOMContentLoaded
    \/ \E index \in 1..MaxTabs : TabClick(index)
    \/ OverviewFrameLoad \/ OverviewFrameError
    \/ AiFrameLoad \/ AiFrameError

SpecHub == InitHub /\ [][NextHub]_vars

\* The document but for the record of the events dispatched.
DomOf(d) == [d EXCEPT !.event = "none", !.clicked = 0]

\* Helpers of C15: the trip-data element is absent, empty or no JSON text.
C15_NoData ==
    \/ ~doc.script.present
    \/ \A i \in 1..Len(doc.script.text) : doc.script.text[i] \in {" ", "\n"}
    \/ ~JSONparse(doc.script.text).ok

(***************************************************************************)
(* C15: on a trip page whose trip-data block is absent, empty or not valid *)
(* JSON the script changes nothing: no frame source is set, no tab is      *)
(* created, no status text is changed and the server-rendered links stay.  *)
(***************************************************************************)
C15_HubAbortsUnchanged ==
    (pc = "loaded" /\ C15_NoData) =>
        DomOf(doc) = HubDocument(page, doc.overviewFrame.present, doc.script)

\* The script has run on a page of a trip with AI files whose trip-data
\* text is cut short, and a frame has loaded since.
C15_Witness ==
    /\ pc = "loaded"
    /\ doc.script.present
    /\ Len(doc.script.text) > 1
    /\ ~JSONparse(doc.script.text).ok
    /\ trips[1].aiFiles # <<>>
    /\ doc.event = "ai.load"

\* Helpers of C16: the data are valid, and what a step does to the status.
C16_Valid(value) == DOMAIN value = {"keys", "vals"}
C16_OnLoad ==
    (pc = "page" /\ pc' = "loaded" /\ C16_Valid(parsed') /\ doc.overviewFrame.present) =>
        /\ doc'.overviewFrame.src =
              [set |-> TRUE, url |-> <<".", "/">> \o OVERVIEW_FILENAME]
        /\ doc'.overviewStatus.text.message = "Loading overview"
C16_StatusChange ==
    (doc.overviewFrame.present /\ doc'.overviewStatus # doc.overviewStatus) =>
        \/ doc'.overviewStatus.text.message = "Loading overview"
              /\ doc'.event = "DOMContentLoaded"
        \/ doc'.overviewStatus.text.message = "Overview loaded"
              /\ doc'.event = "overview.load"
        \/ doc'.overviewStatus.text.message = "Failed to load overview"
              /\ doc'.event = "overview.error"
C16_OnEvent ==
    (pc = "loaded" /\ C16_Valid(parsed) /\ doc.overviewFrame.present) =>
        /\ doc'.event = "overview.load" =>
              doc'.overviewStatus.text.message = "Overview loaded"
        /\ doc'.event = "overview.error" =>
              doc'.overviewStatus.text.message = "Failed to load overview"
        /\ doc'.event \in {"click", "ai.load", "ai.error"} =>
              doc'.overviewStatus = doc.overviewStatus

(***************************************************************************)
(* C16: on the load of a trip page with valid data the source of the       *)
(* overview frame is set to the trip's overviewPath and the overview       *)
(* status shows the loading state; the status then changes to the loaded   *)
(* state on the frame's load event only, to the error state on the         *)
(* frame's error event only, and to nothing else.                          *)
(***************************************************************************)
C16_OverviewStatus == [][C16_OnLoad /\ C16_StatusChange /\ C16_OnEvent]_vars

\* The overview frame failed, then loaded.
C16_Witness ==
    /\ pc = "loaded"
    /\ doc.overviewFrame.present
    /\ doc.overviewStatus.text.message = "Overview loaded"
    /\ doc.event = "overview.load"

(***************************************************************************)
(* C17: on a trip page of a trip without AI files, after page load the     *)
(* suggestion frame has no source, the status shows the "none available"   *)
(* text, the tab area is marked disabled and holds no tab; with at least   *)
(* one AI file the tab area is not marked disabled.                        *)
(***************************************************************************)
C17_NoAiFiles ==
    (pc = "loaded" /\ C16_Valid(parsed)) =>
        IF trips[1].aiFiles = <<>>
        THEN /\ ~doc.aiFrame.src.set
             /\ doc.aiStatus.text.message = "No AI suggestions available."
             /\ doc.aiTabs.disabled
             /\ doc.aiTabs.buttons = <<>>
        ELSE ~doc.aiTabs.disabled

\* The page of a trip without AI files is loaded and its AI frame, empty,
\* has fired its load event.
C17_Witness ==
    /\ pc = "loaded"
    /\ C16_Valid(parsed)
    /\ trips[1].aiFiles = <<>>
    /\ doc.aiTabs.disabled
    /\ doc.event = "ai.load"

\* Helpers of C18: the file a frame source names, its %XX sequences decoded.
C18_Codes ==
    { <<<<"%","2","6">>, "&">>, <<<<"%","2","0">>, " ">>, <<<<"%","2","3">>, "#">> }
RECURSIVE C18_Decode(_)
C18_Decode(url) ==
    IF url = <<>> THEN <<>>
    ELSE IF \E e \in C18_Codes : Len(url) >= 3 /\ SubSeq(url, 1, 3) = e[1]
    THEN <<(CHOOSE e \in C18_Codes : SubSeq(url, 1, 3) = e[1])[2]>>
         \o C18_Decode(SubSeq(url, 4, Len(url)))
    ELSE <<Head(url)>> \o C18_Decode(Tail(url))
C18_Current == IF doc.clicked = 0 THEN 1 ELSE doc.clicked

(***************************************************************************)
(* C18: on a trip page of a trip with AI files one tab is rendered per AI  *)
(* file, in the order of aiFiles; after page load and after any clicks     *)
(* exactly one tab is active, the one clicked last, or the first when      *)
(* none was clicked, and the source of the suggestion frame is its file.   *)
(***************************************************************************)
C18_OneActiveTab ==
    (pc = "loaded" /\ C16_Valid(parsed) /\ trips[1].aiFiles # <<>>) =>
        /\ [i \in 1..Len(doc.aiTabs.buttons) |-> doc.aiTabs.buttons[i].file]
              = trips[1].aiFiles
        /\ { i \in 1..Len(doc.aiTabs.buttons) : doc.aiTabs.buttons[i].active }
              = {C18_Current}
        /\ doc.aiFrame.src.set
        /\ C18_Decode(doc.aiFrame.src.url)
              = <<".", "/">> \o trips[1].aiFiles[C18_Current]

\* The second tab, of a file with "&" in its name, was clicked last.
C18_Witness ==
    /\ pc = "loaded"
    /\ doc.clicked = 2
    /\ doc.event = "click"
    /\ "&" \in Range(trips[1].aiFiles[2])


(***************************************************************************)
(* The trip explorer page in the browser (src/web/app.ts, in               *)
(* src/web/shared.ts from line 49).  The document is the page              *)
(* renderIndexHtml wrote, in the template of scripts/build.ts ("console")  *)
(* or in the older template ("plain"), which has the trip-data element     *)
(* and the links of the trips and none of the elements the script looks    *)
(* for.                                                                    *)
(***************************************************************************)
MaxExplorerTrips == 2    \* most trips of the manifest of an explorer page

Link == [present |-> TRUE, href |-> <<"#">>]

\* The elements bootstrap cannot do without, and the pages the script may
\* run on: the page of scripts/build.ts ("console"), the older page
\* ("plain"), and the console page short of one required element, the
\* template then bearing the name of that element.
RequiredElements == {"list", "panel", "aiTabs", "overviewFrame", "aiFrame"}
ExplorerTemplates == {"console", "plain"} \cup RequiredElements
InTemplate(template, element) == template # "plain" /\ template # element

ExplorerDocument(indexPage, template, script) ==
    [kind |-> "explorer",
     template |-> template,
     script |-> script,
     links |-> indexPage.holes,
     list |-> IF InTemplate(template, "list")
              THEN [present |-> TRUE, items |-> <<>>] ELSE Missing,
     panel |-> IF InTemplate(template, "panel")
               THEN [present |-> TRUE, hidden |-> TRUE] ELSE Missing,
     fallback |-> IF InTemplate(template, "fallback")
                  THEN [present |-> TRUE, hidden |-> FALSE] ELSE Missing,
     tripTitle |-> IF InTemplate(template, "tripTitle")
                   THEN Element(StatusText("server", <<>>)) ELSE Missing,
     tripSlug |-> IF InTemplate(template, "tripSlug")
                  THEN Element(StatusText("server", <<>>)) ELSE Missing,
     openOverview |-> IF InTemplate(template, "openOverview") THEN Link ELSE Missing,
     openFolder |-> IF InTemplate(template, "openFolder") THEN Link ELSE Missing,
     overviewFrame |-> IF InTemplate(template, "overviewFrame")
                       THEN Frame(NoSrc) ELSE Missing,
     overviewStatus |-> IF InTemplate(template, "overviewStatus")
                        THEN Element(StatusText("server", <<>>)) ELSE Missing,
     aiStatus |-> IF InTemplate(template, "aiStatus")
                  THEN Element(StatusText("server", <<>>)) ELSE Missing,
     aiTabs |-> IF InTemplate(template, "aiTabs")
                THEN [present |-> TRUE, disabled |-> FALSE, buttons |-> <<>>]
                ELSE Missing,
     aiFrame |-> IF InTemplate(template, "aiFrame") THEN Frame(NoSrc) ELSE Missing,
     trip |-> 0,            \* state.trip, as its position in the manifest
     event |-> "none",      \* the event dispatched last
     clicked |-> 0,         \* the position of the tab clicked last
     picked |-> 0]          \* the position of the trip entry clicked last

\* The manifest as the script reads it from the parsed value.
TripsOf(manifest) ==
    [i \in 1..Len(manifest.arr) |->
        [slug |-> DataString(manifest.arr[i], K_slug),
         title |-> DataString(manifest.arr[i], K_title),
         aiFiles |-> DataFiles(manifest.arr[i])]]

hasTrips_AnyLength(manifest) == IsArr(manifest) \/ IsStr(manifest)

\* manifest && manifest.length > 0: of the values JSON.parse returns, arrays
\* and strings have a length.
hasTrips(manifest) ==
    \/ IsArr(manifest) /\ Len(manifest.arr) > 0
    \/ IsStr(manifest) /\ Len(manifest.str) > 0

loadAiFrameOfTrip_NoSlug(d, tripSlug, file) ==
    [d EXCEPT
       !.aiStatus = setTextContent(@, StatusText("Loading", formatAiLabel(file))),
       !.aiFrame =
           [@ EXCEPT !.src = Src(DotSlash \o encodeURIComponent(file)),
                     !.onload = Handler(StatusText("ready", formatAiLabel(file))),
                     !.onerror = Handler(StatusText("Failed to load", formatAiLabel(file)))]]

\* aiFrame.src and its handlers, in the explorer.
loadAiFrameOfTrip(d, tripSlug, file) ==
    [d EXCEPT
       !.aiStatus = setTextContent(@, StatusText("Loading", formatAiLabel(file))),
       !.aiFrame =
           [@ EXCEPT !.src = Src(DotSlash \o encodeURIComponent(tripSlug) \o Slash
                                 \o encodeURIComponent(file)),
                     !.onload = Handler(StatusText("ready", formatAiLabel(file))),
                     !.onerror = Handler(StatusText("Failed to load", formatAiLabel(file)))]]

renderAiTabs(d, trip) ==
    LET cleared == [d EXCEPT !.aiTabs.buttons = <<>>, !.clicked = 0]
    IN  IF trip.aiFiles = <<>>
        THEN [cleared EXCEPT
                !.aiFrame.src = NoSrc,
                !.aiStatus = setTextContent(@,
                                StatusText("No AI suggestions for this trip yet", <<>>)),
                !.aiTabs.disabled = TRUE]
        ELSE loadAiFrameOfTrip(
                [cleared EXCEPT
                    !.aiTabs.disabled = FALSE,
                    !.aiTabs.buttons = [i \in 1..Len(trip.aiFiles) |->
                                          TabButton(trip.aiFiles[i], i)]],
                trip.slug, trip.aiFiles[1])

\* href of a link, when the link is in the page.
setHref(link, href) == IF link.present THEN [link EXCEPT !.href = href] ELSE link

selectTrip(d, ts, index) ==
    LET trip == ts[index]
        folder == DotSlash \o encodeURIComponent(trip.slug) \o Slash
    IN  renderAiTabs(
            [d EXCEPT
                !.trip = index,
                !.tripTitle = setTextContent(@, StatusText("title", trip.title)),
                !.tripSlug = setTextContent(@, StatusText("slug", trip.slug)),
                !.openOverview = setHref(@, folder \o OVERVIEW_FILENAME),
                !.openFolder = setHref(@, folder),
                !.overviewStatus = setTextContent(@, StatusText("Loading overview", <<>>)),
                !.overviewFrame =
                    [@ EXCEPT !.src = Src(folder \o OVERVIEW_FILENAME),
                              !.onload = Handler(StatusText("Overview loaded", <<>>)),
                              !.onerror = Handler(StatusText("Failed to load overview", <<>>))]],
            trip)

revealPanel_KeepsFallback(d) == [d EXCEPT !.panel.hidden = FALSE]

\* interactivePanel.classList.remove("hidden");
\* fallbackSection?.classList.add("hidden")
revealPanel(d) ==
    [d EXCEPT !.panel.hidden = FALSE,
              !.fallback = IF @.present THEN [@ EXCEPT !.hidden = TRUE] ELSE @]

\* A required element is missing from the page (the guard of bootstrap).
lacksRequired(d) ==
    \/ ~d.list.present \/ ~d.panel.present \/ ~d.aiTabs.present
    \/ ~d.overviewFrame.present \/ ~d.aiFrame.present

\* bootstrap past its guard, with the microtask it queues for the first
\* trip, which runs when the script has ended and before any event is
\* dispatched.  On a value that is no array, trips.forEach throws once the
\* list is emptied.
listTrips(d, manifest) ==
    IF ~IsArr(manifest) \/ manifest.arr = <<>>
    THEN [revealPanel(d) EXCEPT !.list.items = <<>>]
    ELSE LET ts == TripsOf(manifest)
         IN  selectTrip(
                [revealPanel(d) EXCEPT
                    !.list.items = [i \in 1..Len(ts) |->
                                      [slug |-> ts[i].slug, title |-> ts[i].title,
                                       selected |-> (i = 1)]]],
                ts, 1)

bootstrap_HidesFallbackFirst(d, manifest) ==
    IF lacksRequired(d)
    THEN [d EXCEPT !.fallback = IF @.present THEN [@ EXCEPT !.hidden = TRUE] ELSE @]
    ELSE listTrips(d, manifest)

\* bootstrap(trips)
bootstrap(d, manifest) ==
    IF lacksRequired(d) THEN d ELSE listTrips(d, manifest)

\* The module script of the explorer page.
runExplorer(d) ==
    LET manifest == parseJsonScript(d.script)
    IN  IF hasTrips(manifest) THEN bootstrap(d, manifest) ELSE d

clickTrip_KeepsMarks(d, ts, index) ==
    selectTrip(
        [d EXCEPT !.list.items =
            [i \in 1..Len(@) |-> [@[i] EXCEPT !.selected = (@ \/ i = index)]]],
        ts, index)

\* The click listener of the entry of the trip at position index.
clickTrip(d, ts, index) ==
    selectTrip(
        [d EXCEPT !.list.items =
            [i \in 1..Len(@) |-> [@[i] EXCEPT !.selected = (i = index)]]],
        ts, index)

\* The click listener of the tab at position index of the selected trip.
clickTripTab(d, ts, index) ==
    loadAiFrameOfTrip(
        [d EXCEPT !.aiTabs.buttons =
            [i \in 1..Len(@) |-> [@[i] EXCEPT !.active = (i = index)]]],
        ts[d.trip].slug, d.aiTabs.buttons[index].file)


(***************************************************************************)
(* The trip explorer specification: the top-level page is opened, its      *)
(* script runs, trips and tabs are clicked and the frames load or fail.    *)
(***************************************************************************)
S_aSpaceB == <<"a", " ", "b">>
ExplorerTrips ==
    << TripOf(S_2025_01_05, <<N_claude, N_xAmpY>>, FALLBACK_OVERVIEW_HTML),
       TripOf(S_kyotoTrip, <<>>, FALLBACK_OVERVIEW_HTML),
       TripOf(S_aSpaceB, <<N_gpt>>, FALLBACK_OVERVIEW_HTML) >>

ExplorerTripLists ==
    UNION { { SubSeq(ExplorerTrips, first, first + n - 1) :
                 n \in 1..(IF Len(ExplorerTrips) - first + 1 < MaxExplorerTrips
                            THEN Len(ExplorerTrips) - first + 1
                            ELSE MaxExplorerTrips) } :
            first \in 1..Len(ExplorerTrips) }

\* What the trip-data element may hold instead of the rendered manifest.
BrokenManifests(rendered) ==
    BrokenScripts(rendered)
    \cup { [present |-> TRUE, text |-> <<"[", "]">>],
           [present |-> TRUE, text |-> <<" ", "[", " ", "]", "\n">>],
           [present |-> TRUE, text |-> <<"\"", "x", "\"">>] }

InitExplorer ==
    /\ pc = "page"
    /\ tz = 0
    /\ trips \in ExplorerTripLists
    /\ page = renderIndexHtml(trips)
    /\ \E template \in ExplorerTemplates :
       \E script \in {page.data} \cup BrokenManifests(page.data) :
          doc = ExplorerDocument(page, template, script)
    /\ parsed = JsonNull
    /\ payload = JsonNull
    /\ exitCode = 0
    /\ ServerIdle
    /\ src = EmptyTree
    /\ dist = EmptyTree
    /\ cursor = 0
    /\ written = EmptyTree
    /\ prev = NoPrev
    /\ files = <<>>
    /\ sorted = <<>>
    /\ resorted = <<>>
    /\ slug = <<>>
    /\ title = <<>>

\* <script type="module" src="./assets/app.js">
RunExplorer ==
    /\ pc = "page"
    /\ parsed' = parseJsonScript(doc.script)
    /\ doc' = [runExplorer(doc) EXCEPT !.event = "script"]
    /\ pc' = "loaded"
    /\ UNCHANGED hubRest

\* A click on the entry of the trip at position index.
TripClick(index) ==
    /\ doc.list.present
    /\ index \in 1..Len(doc.list.items)
    /\ doc' = [clickTrip(doc, TripsOf(parsed), index)
                  EXCEPT !.event = "trip.click", !.picked = index]
    /\ UNCHANGED <<pc, parsed, hubRest>>

\* A click on the tab at position index.
TripTabClick(index) ==
    /\ doc.aiTabs.present
    /\ index \in 1..Len(doc.aiTabs.buttons)
    /\ doc' = [clickTripTab(doc, TripsOf(parsed), index)
                  EXCEPT !.event = "click", !.clicked = index]
    /\ UNCHANGED <<pc, parsed, hubRest>>

NextExplorer ==
    \/ RunExplorer
    \/ \E index \in 1..MaxExplorerTrips : TripClick(index)
    \/ \E index \in 1..MaxTabs : TripTabClick(index)
    \/ OverviewFrameLoad \/ OverviewFrameError
    \/ AiFrameLoad \/ AiFrameError

SpecExplorer == InitExplorer /\ [][NextExplorer]_vars

\* Helpers of C19 and C20: the text of the trip-data element is no JSON, is
\* an empty array, or is an array with an entry.
C19_Text == doc.script.text
C19_NoManifest ==
    \/ ~doc.script.present
    \/ LET read == JSONparse(C19_Text)
       IN  ~read.ok \/ read.v = [arr |-> <<>>]
C20_Manifest ==
    /\ doc.script.present
    /\ LET read == JSONparse(C19_Text)
       IN  read.ok /\ DOMAIN read.v = {"arr"} /\ read.v.arr # <<>>

(***************************************************************************)
(* C19: on an explorer page whose manifest is missing, malformed or an     *)
(* empty array the script does nothing: the interactive panel stays        *)
(* hidden, the fallback list stays visible, no list entry is rendered and  *)
(* no frame source is set.                                                 *)
(***************************************************************************)
C19_ExplorerDoesNothing ==
    (pc = "loaded" /\ C19_NoManifest) =>
        /\ DomOf(doc) = ExplorerDocument(page, doc.template, doc.script)
        /\ doc.template = "console" =>
              /\ doc.panel.hidden
              /\ ~doc.fallback.hidden
              /\ doc.list.items = <<>>
              /\ ~doc.overviewFrame.src.set
              /\ ~doc.aiFrame.src.set

\* The script has run on the page of scripts/build.ts with the manifest
\* "[]", and a frame has fired its load event since.
C19_Witness ==
    /\ pc = "loaded"
    /\ doc.template = "console"
    /\ doc.script.present
    /\ doc.script.text = <<"[", "]">>
    /\ doc.event = "overview.load"

(***************************************************************************)
(* C20 as stated: whenever the manifest is present and non-empty, after    *)
(* the script has run the interactive panel is revealed and the plain      *)
(* fallback list is hidden.                                                *)
(***************************************************************************)
C20_AlwaysRevealed ==
    (pc = "loaded" /\ C20_Manifest) =>
        /\ doc.panel.present /\ ~doc.panel.hidden
        /\ doc.fallback.present /\ doc.fallback.hidden

(***************************************************************************)
(* C20 as amended: whenever the manifest is present and non-empty and the  *)
(* page has the trip list, the interactive panel, the tab container and    *)
(* both frames, after the script has run the panel is revealed and the     *)
(* fallback list is hidden; on a page without them the script changes      *)
(* nothing.                                                                *)
(***************************************************************************)
C20_RevealedWhenComplete ==
    (pc = "loaded" /\ C20_Manifest) =>
        IF /\ doc.list.present /\ doc.panel.present /\ doc.aiTabs.present
           /\ doc.overviewFrame.present /\ doc.aiFrame.present
        THEN /\ ~doc.panel.hidden
             /\ doc.fallback.present => doc.fallback.hidden
        ELSE DomOf(doc) = ExplorerDocument(page, doc.template, doc.script)

\* The script has run on the page of scripts/build.ts with two trips.
C20_Witness ==
    /\ pc = "loaded"
    /\ doc.template = "console"
    /\ C20_Manifest
    /\ Len(doc.list.items) = 2
    /\ ~doc.panel.hidden

\* Helpers of C21 and C22: the page has every element bootstrap requires and
\* the script has run on a manifest with an entry; the manifest the script
\* read; the position of the trip selected last.
C21_Running ==
    /\ pc = "loaded"
    /\ C20_Manifest
    /\ doc.list.present /\ doc.panel.present /\ doc.aiTabs.present
    /\ doc.overviewFrame.present /\ doc.aiFrame.present
C21_Trips == TripsOf(parsed)
C21_Current == IF doc.picked = 0 THEN 1 ELSE doc.picked

(***************************************************************************)
(* C21: on the explorer page one entry is rendered per trip of the         *)
(* manifest, in manifest order; after load and after any clicks exactly    *)
(* one entry is marked selected, the entry of the selected trip, which is  *)
(* the trip clicked last, or the first trip when none was clicked.         *)
(***************************************************************************)
C21_OneSelectedEntry ==
    C21_Running =>
        /\ [i \in 1..Len(doc.list.items) |->
               [slug |-> doc.list.items[i].slug, title |-> doc.list.items[i].title]]
           = [i \in 1..Len(C21_Trips) |->
               [slug |-> C21_Trips[i].slug, title |-> C21_Trips[i].title]]
        /\ [i \in 1..Len(trips) |-> trips[i].slug]
           = [i \in 1..Len(C21_Trips) |-> C21_Trips[i].slug]
        /\ { i \in 1..Len(doc.list.items) : doc.list.items[i].selected }
           = {C21_Current}
        /\ doc.trip = C21_Current

\* The second entry of a list of two was clicked last and a frame has
\* loaded since.
C21_Witness ==
    /\ C21_Running
    /\ Len(doc.list.items) = 2
    /\ doc.picked = 2
    /\ doc.event = "ai.load"

\* Helpers of C22: the selected trip, its folder, the tab clicked last in it
\* or the first, and what selectTrip shows of the trip outside the tab set.
C22_Trip == C21_Trips[C21_Current]
C22_Folder == <<".", "/">> \o C22_Trip.slug \o <<"/">>
C22_Tab == IF doc.clicked = 0 THEN 1 ELSE doc.clicked
C22_TripShown ==
    /\ doc.tripTitle.text = StatusText("title", C22_Trip.title)
    /\ doc.tripSlug.text = StatusText("slug", C22_Trip.slug)
    /\ C18_Decode(doc.openOverview.href) = C22_Folder \o OVERVIEW_FILENAME
    /\ C18_Decode(doc.openFolder.href) = C22_Folder
    /\ doc.overviewFrame.src.set
    /\ C18_Decode(doc.overviewFrame.src.url) = C22_Folder \o OVERVIEW_FILENAME
    /\ [i \in 1..Len(doc.aiTabs.buttons) |-> doc.aiTabs.buttons[i].file]
          = C22_Trip.aiFiles
C22_ActiveTabShown ==
    /\ { i \in 1..Len(doc.aiTabs.buttons) : doc.aiTabs.buttons[i].active }
          = {C22_Tab}
    /\ doc.aiFrame.src.set
    /\ C18_Decode(doc.aiFrame.src.url) = C22_Folder \o C22_Trip.aiFiles[C22_Tab]

(***************************************************************************)
(* C22 as stated: after the selection of trip T and after any later tab    *)
(* clicks the title and the slug shown are T's, both links and the         *)
(* overview frame point into T's folder, there is one tab per file of      *)
(* T.aiFiles, exactly one tab is active and the source of the suggestion   *)
(* frame is the path of its file under T's folder.                         *)
(***************************************************************************)
C22_SelectionShown ==
    C21_Running => (C22_TripShown /\ C22_ActiveTabShown)

(***************************************************************************)
(* C22 as amended: after the selection of trip T and after any later tab   *)
(* clicks the title and the slug shown are T's, both links and the         *)
(* overview frame point into T's folder and there is one tab per file of   *)
(* T.aiFiles; when T has AI files exactly one tab is active and the source *)
(* of the suggestion frame is the path of its file under T's folder; when  *)
(* T has none there is no tab and the suggestion frame has no source.      *)
(***************************************************************************)
C22_SelectionShownByFiles ==
    C21_Running =>
        /\ C22_TripShown
        /\ IF C22_Trip.aiFiles # <<>>
           THEN C22_ActiveTabShown
           ELSE doc.aiTabs.buttons = <<>> /\ ~doc.aiFrame.src.set

\* The first trip of two was selected by a click and its second tab was
\* clicked since.
C22_Witness ==
    /\ C21_Running
    /\ Len(doc.list.items) = 2
    /\ doc.picked = 1
    /\ doc.clicked = 2
    /\ doc.event = "click"

\* Helpers of C23: the files of the tabs that are active after the step, and
\* whether the status after the step is the given message about one of them,
\* the frame pointing somewhere.
C23_ActiveFiles ==
    { doc'.aiTabs.buttons[i].file :
        i \in { j \in 1..Len(doc'.aiTabs.buttons) : doc'.aiTabs.buttons[j].active } }
C23_Names(message) ==
    /\ doc'.aiFrame.src.set
    /\ \E file \in C23_ActiveFiles :
          doc'.aiStatus.text = StatusText(message, formatAiLabel(file))
C23_Step ==
    /\ (/\ doc'.event = "ai.load"
        /\ doc.aiFrame.present /\ doc.aiStatus.present /\ doc.aiTabs.present
        /\ doc.aiFrame.onload.installed)
       => C23_Names("ready")
    /\ (/\ doc'.event = "ai.error"
        /\ doc.aiFrame.present /\ doc.aiStatus.present /\ doc.aiTabs.present
        /\ doc.aiFrame.onerror.installed)
       => C23_Names("Failed to load")

(***************************************************************************)
(* C23: whatever the interleaving of selections and frame events, the      *)
(* status a load or error event of the suggestion frame writes is the      *)
(* loaded or failed state of the file selected last, the file of the       *)
(* active tab and the target of the frame, never of an earlier selection.  *)
(***************************************************************************)
C23_StatusOfLastSelection == [][C23_Step]_vars

(***************************************************************************)
(* C24: while the selected trip of the explorer page has no AI files, the  *)
(* suggestion frame has no source, the tab area is empty and marked        *)
(* disabled and the AI status is the "no AI suggestions" text, also after  *)
(* a load or error event of the suggestion frame.                          *)
(***************************************************************************)
C24_NoSuggestionsShown ==
    (C21_Running /\ C22_Trip.aiFiles = <<>>) =>
        /\ ~doc.aiFrame.src.set
        /\ doc.aiTabs.buttons = <<>>
        /\ doc.aiTabs.disabled
        /\ doc.aiStatus.text = StatusText("No AI suggestions for this trip yet", <<>>)

(***************************************************************************)
(* C25: every destination file of a build is written by one step only: no  *)
(* destination file is written twice, whatever the source tree holds.      *)
(***************************************************************************)
C25_WrittenOnce ==
    pc \in {"copy", "bundle", "done"} =>
        \A q \in DOMAIN written :
            (q \in DOMAIN dist /\ dist[q].kind = "file") => written[q] = 1

\* Helper of C26 and C27: the regular files below the source directory of
\* trip folder d.
C26_SourceFiles(d) ==
    { q \in DOMAIN src : Len(q) >= 2 /\ q[1] = d /\ src[q].kind = "file" }

(***************************************************************************)
(* C26: a successful build loses no content of a source trip directory:    *)
(* every regular file below it is at the same relative path of the         *)
(* destination with the same content, or it is named index.html in some    *)
(* letter case and its content is that of the trip's overview.html, or    *)
(* is blank, which leaves nothing to keep.                                 *)
(***************************************************************************)
C26_NoContentLost ==
    pc = "done" =>
        \A i \in 1..Len(trips) :
            \A q \in C26_SourceFiles(trips[i].slug) :
                \/ q \in DOMAIN dist /\ dist[q] = src[q]
                \/ /\ toLowerCase(BaseName(q)) = INDEX_FILENAME
                   /\ ~HasInk(src[q].content.text)
                \/ /\ toLowerCase(BaseName(q)) = INDEX_FILENAME
                   /\ <<trips[i].slug, OVERVIEW_FILENAME>> \in DOMAIN dist
                   /\ dist[<<trips[i].slug, OVERVIEW_FILENAME>>]
                         = FileNode(src[q].content)

(***************************************************************************)
(* C27: after a successful build every navigation target of the pages      *)
(* exists: for every Trip the destination holds a regular file for each    *)
(* name of aiFiles, with the content of the source entry, and the trip's   *)
(* overview.html and index.html.                                           *)
(***************************************************************************)
C27_TargetsExist ==
    pc = "done" =>
        \A i \in 1..Len(trips) :
            LET d == trips[i].slug
            IN  /\ \A k \in 1..Len(trips[i].aiFiles) :
                      LET q == <<d, trips[i].aiFiles[k]>>
                      IN  /\ q \in DOMAIN dist
                          /\ dist[q].kind = "file"
                          /\ src[q].kind # "dir" => dist[q].content = src[q].content
                /\ <<d, OVERVIEW_FILENAME>> \in DOMAIN dist
                /\ dist[<<d, OVERVIEW_FILENAME>>].kind = "file"
                /\ IndexPath(d) \in DOMAIN dist
                /\ dist[IndexPath(d)].kind = "file"

\* Helper of C28: a step of the build before the destination is cleared, or
\* of the handler of a failed build.
C28_Step ==
    /\ pc = "start" => (dist = StaleDist /\ dist' = dist)
    /\ (pc = "failed" /\ written = NoFiles /\ dist = StaleDist) => dist' = dist

(***************************************************************************)
(* C28: discovery is over before the destination is cleared: when it       *)
(* fails the destination is left exactly as it was before the build, also  *)
(* by the handler of the failure.                                          *)
(***************************************************************************)
C28_FailedDiscoveryKeepsDist == [][C28_Step]_vars

\* Discovery has failed on the read of an index.html that is a directory,
\* the process has ended and the earlier output is still in place.
C28_Witness ==
    /\ pc = "exited"
    /\ exitCode = 1
    /\ trips = NoTrips
    /\ <<S_a, INDEX_FILENAME>> \in DOMAIN src
    /\ src[<<S_a, INDEX_FILENAME>>].kind = "dir"
    /\ dist = StaleDist

\* Helpers of C29: an element is in the page and shown.
C29_PanelShown == doc.panel.present /\ ~doc.panel.hidden
C29_FallbackShown == doc.fallback.present /\ ~doc.fallback.hidden

(***************************************************************************)
(* C29: on an explorer page with a fallback list, the interactive panel or *)
(* the fallback list is visible in every state, and the fallback list is   *)
(* hidden only when the panel has been revealed; when a required element   *)
(* is missing from the page, the script leaves the fallback list visible   *)
(* and changes nothing on the page.                                        *)
(***************************************************************************)
C29_NeverBothHidden ==
    doc.fallback.present =>
        /\ C29_PanelShown \/ C29_FallbackShown
        /\ doc.fallback.hidden => C29_PanelShown
        /\ lacksRequired(doc) =>
              /\ C29_FallbackShown
              /\ DomOf(doc) = ExplorerDocument(page, doc.template, doc.script)

\* The script has run, with a manifest of two trips, on a page that has the
\* panel and the fallback list and no suggestion frame.
C29_Witness ==
    /\ pc = "loaded"
    /\ C20_Manifest
    /\ Len(trips) = 2
    /\ doc.template = "aiFrame"
    /\ doc.panel.present
    /\ doc.fallback.present


(***************************************************************************)
(* The dev HTTP server (scripts/dev-api.ts): its request handler on        *)
(* requests that are not for the two API routes, over a disk that holds    *)
(* the source root, a sibling directory whose name starts with the root's  *)
(* name, and a file next to the root.                                      *)
(***************************************************************************)
MaxSegments == 3     \* most path segments of a request below /generated_html/

\* String.prototype.startsWith
startsWith(s, prefix) ==
    Len(s) >= Len(prefix) /\ SubSeq(s, 1, Len(prefix)) = prefix

\* path.normalize on the segments of a path: "." and empty segments are
\* dropped, ".." removes the segment before it; above the root of an
\* absolute path it is dropped, in a relative path it is kept.
RECURSIVE normalizeSegments(_, _, _)
normalizeSegments(segments, kept, isAbsolute) ==
    IF segments = <<>> THEN kept
    ELSE LET seg == Head(segments)
             rest == Tail(segments)
         IN  IF seg = <<>> \/ seg = <<".">>
             THEN normalizeSegments(rest, kept, isAbsolute)
             ELSE IF seg = <<".", ".">>
             THEN IF kept # <<>> /\ kept[Len(kept)] # <<".", ".">>
                  THEN normalizeSegments(rest, SubSeq(kept, 1, Len(kept) - 1), isAbsolute)
                  ELSE IF isAbsolute
                  THEN normalizeSegments(rest, kept, isAbsolute)
                  ELSE normalizeSegments(rest, Append(kept, seg), isAbsolute)
             ELSE normalizeSegments(rest, Append(kept, seg), isAbsolute)

\* p.split("/"): the pieces between the separators of p.
segmentsOf(p) ==
    LET cuts == {0, Len(p) + 1} \cup { i \in 1..Len(p) : p[i] = "/" }
        cut(k) == CHOOSE i \in cuts : Cardinality({ j \in cuts : j < i }) = k - 1
    IN  [k \in 1..(Cardinality(cuts) - 1) |-> SubSeq(p, cut(k) + 1, cut(k + 1) - 1)]

\* path.normalize (posix): a trailing separator is kept.
normalize(p) ==
    IF p = <<>> THEN <<".">>
    ELSE LET isAbsolute == Head(p) = "/"
             trailing == p[Len(p)] = "/"
             body == JoinWith(normalizeSegments(segmentsOf(p), <<>>, isAbsolute), <<"/">>)
         IN  IF body = <<>>
             THEN (IF isAbsolute THEN <<"/">> ELSE IF trailing THEN <<".", "/">> ELSE <<".">>)
             ELSE (IF isAbsolute THEN <<"/">> ELSE <<>>) \o body
                  \o (IF trailing THEN <<"/">> ELSE <<>>)

\* path.join(a, b): the non-empty arguments joined by "/" and normalized.
pathJoin(a, b) ==
    IF a = <<>> /\ b = <<>> THEN <<".">>
    ELSE IF b = <<>> THEN normalize(a)
    ELSE IF a = <<>> THEN normalize(b)
    ELSE normalize(a \o <<"/">> \o b)

P_cwd == <<"/", "w">>
P_rootRelative == <<"s", "r", "c", "/", "g", "e", "n", "e", "r", "a", "t", "e", "d", "_", "h", "t", "m", "l">>
P_staticPrefix == <<"/", "g", "e", "n", "e", "r", "a", "t", "e", "d", "_", "h", "t", "m", "l", "/">>
P_backup == <<"g", "e", "n", "e", "r", "a", "t", "e", "d", "_", "h", "t", "m", "l", "_", "b", "a", "c", "k", "u", "p">>
P_a == <<"a">>
P_x == <<"x", ".", "h", "t", "m", "l">>
P_s == <<"s">>
P_missing == <<"m">>

\* path.resolve(process.cwd(), "src/generated_html")
ROOT == pathJoin(P_cwd, P_rootRelative)

\* The disk: directories, the trip file ROOT/a/x.html, the file s of the
\* sibling directory generated_html_backup and the file s next to the root.
Parent == pathJoin(ROOT, <<".", ".">>)
ServerDisk ==
    (<<"/">> :> DirNode)
    @@ (P_cwd :> DirNode)
    @@ (Parent :> DirNode)
    @@ (ROOT :> DirNode)
    @@ (pathJoin(ROOT, P_a) :> DirNode)
    @@ (pathJoin(pathJoin(ROOT, P_a), P_x) :> FileNode(Text(<<"x">>)))
    @@ (pathJoin(Parent, P_backup) :> DirNode)
    @@ (pathJoin(pathJoin(Parent, P_backup), P_s) :> FileNode(Text(<<"b">>)))
    @@ (pathJoin(Parent, P_s) :> FileNode(Text(<<"n">>)))

\* url.parse(req.url).pathname: the URL up to its query or fragment.
pathnameOf(u) ==
    LET marks == { i \in 1..Len(u) : u[i] \in {"?", "#"} }
    IN  IF marks = {} THEN u
        ELSE SubSeq(u, 1, (CHOOSE i \in marks : \A j \in marks : i <= j) - 1)

\* sendText(res, text, status)
sendText(text, status) ==
    [sent |-> TRUE, status |-> status, body |-> [message |-> text], opened |-> <<>>]

\* serveStatic(res, filePath): fs.readFile(filePath) and the answer to its
\* outcome; opened is the path handed to readFile.
serveStatic(disk, filePath) ==
    LET trailing == Len(filePath) > 1 /\ filePath[Len(filePath)] = "/"
        file == IF trailing THEN SubSeq(filePath, 1, Len(filePath) - 1) ELSE filePath
    IN  IF file \notin DOMAIN disk
        THEN [sendText("Not Found", 404) EXCEPT !.opened = filePath]
        ELSE IF disk[file].kind # "file" \/ trailing
        THEN [sendText("Internal Server Error", 500) EXCEPT !.opened = filePath]
        ELSE [sent |-> TRUE, status |-> 200, body |-> disk[file].content,
              opened |-> filePath]

\* The request handler, past the two API routes.
handleRequest(disk, u) ==
    LET pathname == IF pathnameOf(u) = <<>> THEN <<"/">> ELSE pathnameOf(u)
    IN  IF startsWith(pathname, P_staticPrefix)
        THEN LET rel == SubSeq(pathname, Len(P_staticPrefix) + 1, Len(pathname))
                 unsafe == pathJoin(ROOT, rel)
                 safe == normalize(unsafe)
             IN  IF ~startsWith(safe, ROOT)
                 THEN sendText("Forbidden", 403)
                 ELSE serveStatic(disk, safe)
        ELSE IF pathname = <<"/">>
        THEN sendText("Dev API running", 200)
        ELSE sendText("Not Found", 404)

\* The segments a request path is made of, and the request URLs.
RequestSegments ==
    { <<".", ".">>, <<".">>, P_a, P_x, P_s, P_missing, P_backup }

RequestPaths ==
    UNION { { JoinWith(segments, <<"/">>) : segments \in [1..n -> RequestSegments] }
            : n \in 0..MaxSegments }

RequestUrls ==
    { P_staticPrefix \o rel : rel \in RequestPaths }
    \cup { P_staticPrefix \o rel \o <<"/">> : rel \in {P_a, JoinWith(<<P_a, P_x>>, <<"/">>)} }
    \cup { P_staticPrefix \o JoinWith(<<P_a, P_x>>, <<"/">>) \o <<"?", "v">> }
    \cup { <<"/">>, <<"/", "x">>, SubSeq(P_staticPrefix, 1, Len(P_staticPrefix) - 1) }

InitServer ==
    /\ pc = "listening"
    /\ ServerIdle
    /\ BuildIdle
    /\ ClientIdle
    /\ exitCode = 0
    /\ tz = 0
    /\ files = <<>>
    /\ sorted = <<>>
    /\ resorted = <<>>
    /\ slug = <<>>
    /\ title = <<>>
    /\ page = NoPage

\* http.createServer(async (req, res) => ...), on a GET request for u.
Request(u) ==
    /\ pc = "listening"
    /\ request' = [received |-> TRUE, url |-> u]
    /\ response' = handleRequest(ServerDisk, u)
    /\ pc' = "answered"
    /\ UNCHANGED <<buildVars, sortVars, tz, slug, title, page, clientVars, exitCode>>

\* The response has ended; the handler keeps nothing of the request.
NextRequest ==
    /\ pc = "answered"
    /\ request' = NoRequest
    /\ response' = NoResponse
    /\ pc' = "listening"
    /\ UNCHANGED <<buildVars, sortVars, tz, slug, title, page, clientVars, exitCode>>

NextServer == (\E u \in RequestUrls : Request(u)) \/ NextRequest

SpecServer == InitServer /\ [][NextServer]_vars

\* Helpers of C30: a path lies in the source root; the file a request for
\* the static route names.
C30_Inside(p) == p = ROOT \/ startsWith(p, ROOT \o <<"/">>)
C30_Static == request.received /\ startsWith(pathnameOf(request.url), P_staticPrefix)
C30_Target ==
    pathJoin(ROOT, SubSeq(pathnameOf(request.url), Len(P_staticPrefix) + 1,
                          Len(pathnameOf(request.url))))

(***************************************************************************)
(* C30: the static route of the dev server reads only files inside the     *)
(* source root: a request whose path resolves outside it is answered 403   *)
(* and no file is read, also when it resolves into a sibling directory     *)
(* whose name starts with the root's name; a missing file inside the root  *)
(* is answered 404.                                                        *)
(***************************************************************************)
C30_ReadsInsideRoot ==
    (response.sent /\ C30_Static) =>
        /\ response.opened # <<>> => C30_Inside(response.opened)
        /\ ~C30_Inside(C30_Target) =>
              (response.status = 403 /\ response.opened = <<>>)
        /\ (C30_Inside(C30_Target) /\ C30_Target \notin DOMAIN ServerDisk
            /\ C30_Target[Len(C30_Target)] # "/") => response.status = 404

\* What does hold: a request that resolves outside of every path the
\* root's name is a prefix of is answered 403 and nothing is read.
C30_ReadsBelowPrefix ==
    (response.sent /\ C30_Static) =>
        /\ response.opened # <<>> => startsWith(response.opened, ROOT)
        /\ ~startsWith(C30_Target, ROOT) =>
              (response.status = 403 /\ response.opened = <<>>)

====
